---- MODULE Spec2Model ----
(***************************************************************************)
(* A model of the core of the skip2/nes emulator: the Console stepping    *)
(* loop, the PPU timing grid, the 6502 CPU bus, stack and ALU, the joypad *)
(* port, and the NROM / MMC1 / UNROM / MMC3 mappers.                       *)
(*                                                                         *)
(* Bytes are naturals in 0..255 and 16-bit words naturals in 0..65535;    *)
(* every Go expression on byte / uint16 is reduced modulo its width.      *)
(* Zero-initialised Go arrays (RAM, SRAM) are kept as sparse functions:   *)
(* an address that was never written reads 0.                             *)
(***************************************************************************)
EXTENDS Integers, Sequences, FiniteSets, TLC

VARIABLES
  cpu,    \* CPU registers, flags, work RAM and NumCycles   (type CPU)
  ppu,    \* PPU timing counters, flags and loopy registers (type PPU)
  m1,     \* MMC1 register state                            (type Mapper1)
  m4,     \* MMC3 register state                            (type Mapper4)
  nrom,   \* NROM bank numbers                              (type Mapper0)
  unrom,  \* UNROM bank numbers                             (type Mapper2)
  cart,   \* Cartridge fields reached through the mappers   (Mirror, sizes)
  joy,    \* the two joypads                                 (Console.Joypads)
  exit,   \* 0 while the process runs, -1 after a Go panic, -2 after log.Fatalf
  obs     \* what the last operation was given and what it returned

vars == <<cpu, ppu, m1, m4, nrom, unrom, cart, joy, exit, obs>>

-----------------------------------------------------------------------------
(* Bounds of the model (not program constants).                            *)

\* SpecPPU stops calling PPU.Step once this many frame wraps were seen.
MaxFrames == 3

-----------------------------------------------------------------------------
(* Fixed-width arithmetic.                                                 *)

Byte(n) == n % 256

Word(n) == n % 65536

\* bit n of x, as 0 or 1
Bit(x, n) == (x \div (2 ^ n)) % 2

RECURSIVE BitAnd(_, _)
BitAnd(a, b) ==
  IF a = 0 \/ b = 0 THEN 0
  ELSE (a % 2) * (b % 2) + 2 * BitAnd(a \div 2, b \div 2)

RECURSIVE BitOr(_, _)
BitOr(a, b) ==
  IF a = 0 THEN b
  ELSE IF b = 0 THEN a
  ELSE (IF a % 2 = 1 \/ b % 2 = 1 THEN 1 ELSE 0) + 2 * BitOr(a \div 2, b \div 2)

RECURSIVE BitXor(_, _)
BitXor(a, b) ==
  IF a = 0 THEN b
  ELSE IF b = 0 THEN a
  ELSE ((a + b) % 2) + 2 * BitXor(a \div 2, b \div 2)

\* a &^ b on 16-bit words
BitClear(a, b) == BitAnd(a, 65535 - b)

\* a zero-initialised array kept sparse: the byte stored at index i
Rd(mem, i) == IF i \in DOMAIN mem THEN mem[i] ELSE 0

\* the array after mem[i] = v
Wr(mem, i, v) == (i :> v) @@ mem

EmptyMem == [j \in {} |-> 0]

\* F applied to x: names the result of a call for the statements after it
Bind(x, F(_)) == F(x)

-----------------------------------------------------------------------------
(* Cartridge.  The fields the mappers reach through their embedded         *)
(* *Cartridge: the number of 16 KiB PRG banks, the number of 8 KiB CHR     *)
(* banks and the name-table mirroring mode.                                *)

NewCartridge(numPRG, numCHR, mapper) ==
  [numPRG |-> numPRG,
   numCHR |-> IF numCHR = 0 THEN 1 ELSE numCHR,
   chrRAM |-> numCHR = 0,
   CHR |-> EmptyMem,
   SRAM |-> EmptyMem,
   mapper |-> mapper,
   Mirror |-> "horizontal"]

-----------------------------------------------------------------------------
(* Mapper4 (MMC3).                                                         *)

\* a bank setter that counts negative banks from the number of 16 KiB banks
setPRGBankFromHalfEnd(m, c, index, bank) ==
  LET numPRGBanks == c.numPRG
      b == IF bank < 0 THEN bank + numPRGBanks ELSE bank
      offset == IF b % 2 # 0 THEN 8192 ELSE 0
  IN [m EXCEPT !.prgBank[index] = b \div 2,
               !.prgBankOffset[index] = offset]

setPRGBank(m, c, index, bank) ==
  LET numPRGBanks == c.numPRG
      b == IF bank < 0 THEN bank + numPRGBanks * 2 ELSE bank
      offset == IF b % 2 # 0 THEN 8192 ELSE 0
  IN [m EXCEPT !.prgBank[index] = b \div 2,
               !.prgBankOffset[index] = offset]

setCHRBank(m, c, index, bank) ==
  LET numCHRBanks == c.numCHR
      b == IF bank < 0 THEN bank + numCHRBanks * 8 ELSE bank
  IN [m EXCEPT !.chgBank[index] = b \div 8,
               !.chgBankOffset[index] = (b % 8) * 1024]

Mapper4Zero ==
  [ram |-> EmptyMem,
   prgBank |-> [i \in 0..3 |-> 0],
   prgBankOffset |-> [i \in 0..3 |-> 0],
   chgBank |-> [i \in 0..7 |-> 0],
   chgBankOffset |-> [i \in 0..7 |-> 0],
   bankRegisters |-> [i \in 0..7 |-> 0],
   selectedBankRegister |-> 0,
   prgBankSwap |-> FALSE,
   chrInversion |-> FALSE,
   irqEnable |-> FALSE,
   irqReloadPending |-> FALSE,
   irqLatch |-> 0,
   irqCounter |-> 0,
   irqAssert |-> FALSE]

NewMapper4(c) ==
  LET a == setPRGBank(Mapper4Zero, c, 0, 0)
      b == setPRGBank(a, c, 1, 0)
      d == setPRGBank(b, c, 2, -2)
      e == setPRGBank(d, c, 3, -1)
  IN [e EXCEPT !.irqEnable = TRUE]

NextScanlineReloadOnly(m) ==
  LET reload == m.irqCounter = 0 \/ m.irqReloadPending
      m2 == IF reload
            THEN [m EXCEPT !.irqCounter = m.irqLatch, !.irqReloadPending = FALSE]
            ELSE [m EXCEPT !.irqCounter = Byte(m.irqCounter + 255)]
  IN IF reload /\ m2.irqCounter = 0 /\ m2.irqEnable
     THEN [m2 EXCEPT !.irqAssert = TRUE]
     ELSE m2

NextScanlineKeepsPending(m) ==
  LET m2 == IF m.irqCounter = 0 \/ m.irqReloadPending
            THEN [m EXCEPT !.irqCounter = m.irqLatch]
            ELSE [m EXCEPT !.irqCounter = Byte(m.irqCounter + 255)]
  IN IF m2.irqCounter = 0 /\ m2.irqEnable
     THEN [m2 EXCEPT !.irqAssert = TRUE]
     ELSE m2

NextScanline(m) ==
  LET m2 == IF m.irqCounter = 0 \/ m.irqReloadPending
            THEN [m EXCEPT !.irqCounter = m.irqLatch, !.irqReloadPending = FALSE]
            ELSE [m EXCEPT !.irqCounter = Byte(m.irqCounter + 255)]
  IN IF m2.irqCounter = 0 /\ m2.irqEnable
     THEN [m2 EXCEPT !.irqAssert = TRUE]
     ELSE m2

Mapper4IRQNoClear(m) == [m4 |-> m, isIRQ |-> m.irqAssert]

\* Mapper4.IRQ returns isIRQ and clears the asserted state
Mapper4IRQ(m) == [m4 |-> [m EXCEPT !.irqAssert = FALSE], isIRQ |-> m.irqAssert]

updateMappings(m, c) ==
  LET R(i) == m.bankRegisters[i]
      evn(x) == x - (x % 2)       \* x & 0xFE
      odd(x) == x - (x % 2) + 1   \* x | 0x01
      p0 == IF m.prgBankSwap
            THEN setPRGBank(setPRGBank(setPRGBank(setPRGBank(m, c, 0, -2),
                     c, 1, R(7)), c, 2, R(6)), c, 3, -1)
            ELSE setPRGBank(setPRGBank(setPRGBank(setPRGBank(m, c, 0, R(6)),
                     c, 1, R(7)), c, 2, -2), c, 3, -1)
      chr == IF m.chrInversion
             THEN <<R(2), R(3), R(4), R(5), evn(R(0)), odd(R(0)), evn(R(1)), odd(R(1))>>
             ELSE <<evn(R(0)), odd(R(0)), evn(R(1)), odd(R(1)), R(2), R(3), R(4), R(5)>>
  IN setCHRBank(setCHRBank(setCHRBank(setCHRBank(
       setCHRBank(setCHRBank(setCHRBank(setCHRBank(p0,
         c, 0, chr[1]), c, 1, chr[2]), c, 2, chr[3]), c, 3, chr[4]),
         c, 4, chr[5]), c, 5, chr[6]), c, 6, chr[7]), c, 7, chr[8])

\* Mapper4.Write with isPPU = false (a PPU-side write changes nothing)
Mapper4Write(m, c, address, value, isPPU) ==
  LET isEven == address % 2 = 0
      same == [m4 |-> m, cart |-> c]
  IN IF isPPU THEN same
     ELSE IF address >= 24576 /\ address <= 32767
       THEN [same EXCEPT !.m4.ram = Wr(m.ram, address - 24576, value)]
     ELSE IF address >= 32768 /\ address <= 40959
       THEN IF isEven
            THEN [same EXCEPT !.m4 =
                    updateMappings([m EXCEPT !.selectedBankRegister = value % 8,
                                             !.prgBankSwap = Bit(value, 6) = 1,
                                             !.chrInversion = Bit(value, 7) = 1], c)]
            ELSE [same EXCEPT !.m4 =
                    updateMappings([m EXCEPT !.bankRegisters[m.selectedBankRegister] = value], c)]
     ELSE IF address >= 40960 /\ address <= 49151
       THEN IF isEven
            THEN [same EXCEPT !.cart.Mirror =
                    IF value % 2 = 0 THEN "vertical" ELSE "horizontal"]
            ELSE same
     ELSE IF address >= 49152 /\ address <= 61439
       THEN IF isEven
            THEN [same EXCEPT !.m4.irqLatch = value]
            ELSE [same EXCEPT !.m4.irqReloadPending = TRUE, !.m4.irqCounter = 0]
     ELSE IF address >= 57344 /\ address <= 65535
       THEN IF isEven
            THEN [same EXCEPT !.m4.irqEnable = FALSE, !.m4.irqAssert = FALSE]
            ELSE [same EXCEPT !.m4.irqEnable = TRUE]
     ELSE same

\* The 6502 program of the model's cartridge, loaded at offset 0 of PRG
\* bank 0 ($8000 on every mapper at power-on).
\*   8000 CLI            8001 LDX #1        8003 LDA #$80     8005 STA $2000
\*   8008 NOP            8009 LDA $10,X     800B LDA $80FF,X  800E JMP $8008
ResetCode ==
  <<88, 162, 1, 169, 128, 141, 0, 32,
    234, 181, 16, 189, 255, 128, 76, 8, 128>>

\* NMI handler at $8040: strobe joypad 0, and copy page 2 to OAM if A is held
\*   8040 LDA #1   8042 STA $4016   8045 LDA $4016   8048 BEQ $804F
\*   804A LDA #2   804C STA $4014   804F RTI
NMICode ==
  <<169, 1, 141, 22, 64, 173, 22, 64, 240, 5, 169, 2, 141, 20, 64, 64>>

\* IRQ / BRK handler at $8060
\*   8060 PHP   8061 PLP   8062 LDA #3   8064 STA $C000   8067 STA $C001
\*   806A STA $F000   806D STA $F001   8070 RTI
IRQCode ==
  <<8, 40, 169, 3, 141, 0, 192, 141, 1, 192, 141, 0, 240, 141, 1, 240, 64>>

\* NMI, reset and IRQ vectors, the last six bytes of the last PRG bank
Vectors == <<64, 128, 0, 128, 96, 128>>

\* The byte the loader put at PRG[bank][i].  Bank 1 holds a data table
\* whose byte at offset $60 is $02, which is no opcode.  Outside the program
\* and the table the ROM holds the fill pattern of TestMapper0SinglePRG,
\* byte(i % 256).
PRGByte(c, bank, i) ==
  IF bank = 0 /\ i < Len(ResetCode) THEN ResetCode[i + 1]
  ELSE IF bank = 1 /\ i = 96 THEN 2
  ELSE IF bank = 0 /\ i >= 64 /\ i < 64 + Len(NMICode) THEN NMICode[i - 63]
  ELSE IF bank = 0 /\ i >= 96 /\ i < 96 + Len(IRQCode) THEN IRQCode[i - 95]
  ELSE IF bank = c.numPRG - 1 /\ i >= 16378 THEN Vectors[i - 16377]
  ELSE i % 256

\* Mapper4.Read; -1 stands for Go's index-out-of-range panic
Mapper4Read(m, c, address, isPPU) ==
  IF isPPU
  THEN IF address <= 8191
       THEN LET bank == (address \div 1024) % 8
                offset == address % 1024
                b == m.chgBank[bank]
                i == m.chgBankOffset[bank] + offset
            IN IF b >= c.numCHR \/ i >= 8192 THEN -1 ELSE Rd(c.CHR, b * 8192 + i)
       ELSE 0
  ELSE IF address >= 24576 /\ address <= 32767
       THEN Rd(m.ram, address - 24576)
  ELSE IF address >= 32768 /\ address <= 65535
       THEN LET bank == (address \div 8192) % 4
                offset == address % 8192
                b == m.prgBank[bank]
                i == m.prgBankOffset[bank] + offset
            IN IF b >= c.numPRG \/ i >= 16384 THEN -1 ELSE PRGByte(c, b, i)
  ELSE 0

-----------------------------------------------------------------------------
(* PPU.                                                                    *)

NewPPU ==
  [Scanline |-> 241, Tick |-> 0, Frame |-> 0, numCycles |-> 0,
   ram |-> EmptyMem, sprRAM |-> EmptyMem,
   spriteTableAddress |-> 0, backgroundTableAddress |-> 0,
   flagIncrementBy32 |-> FALSE, flagLargeSprites |-> FALSE,
   flagNMIOnVBlank |-> FALSE,
   flagColourMode |-> FALSE, flagClipBackground |-> FALSE,
   flagClipSprites |-> FALSE, flagShowBackground |-> TRUE,
   flagShowSprites |-> FALSE, flagRedEmphasis |-> FALSE,
   flagGreenEmphasis |-> FALSE, flagBlueEmphasis |-> FALSE,
   flagScanlineSpritesMax |-> FALSE, flagSprite0Hit |-> FALSE,
   flagVBlankOutstanding |-> FALSE,
   v |-> 0, t |-> 0, x |-> 0, w |-> 0,
   fgPixels |-> EmptyMem, fgPixelIsSprite0 |-> {}, fgPixelIsInFront |-> {},
   bgPixels |-> [j \in 0..15 |-> -1],
   sprIOAddress |-> 0, readBuffer |-> 0]

incrementTickNoSkip(p) ==
  LET tick == p.Tick + 1
  IN IF p.Scanline = 261 /\ tick = 341
     THEN [p EXCEPT !.Scanline = 0, !.Tick = 0, !.Frame = @ + 1]
     ELSE IF tick = 341
          THEN [p EXCEPT !.Scanline = @ + 1, !.Tick = 0]
          ELSE [p EXCEPT !.Tick = tick]

incrementTick(p) ==
  LET tick == p.Tick + 1
      isOddFrame == p.Frame % 2 # 0
  IN IF p.Scanline = 261 /\ (tick = 341 \/ (tick = 340 /\ isOddFrame))
     THEN [p EXCEPT !.Scanline = 0, !.Tick = 0, !.Frame = @ + 1]
     ELSE IF tick = 341
          THEN [p EXCEPT !.Scanline = @ + 1, !.Tick = 0]
          ELSE [p EXCEPT !.Tick = tick]

incrementCoarseX(p) ==
  IF p.v % 32 = 31
  THEN [p EXCEPT !.v = BitXor(p.v - 31, 1024)]
  ELSE [p EXCEPT !.v = Word(p.v + 1)]

incrementY(p) ==
  IF (p.v \div 4096) % 8 # 7
  THEN [p EXCEPT !.v = Word(p.v + 4096)]
  ELSE LET v1 == p.v - 28672                 \* v &^= 0x7000
           y  == (v1 \div 32) % 32
           v2 == IF y = 29 THEN BitXor(v1, 2048) ELSE v1
           y2 == IF y = 29 \/ y = 31 THEN 0 ELSE y + 1
       IN [p EXCEPT !.v = (v2 - ((v2 \div 32) % 32) * 32) + y2 * 32]

copyHorizontalBitsToV(p) ==
  [p EXCEPT !.v = BitOr(BitAnd(p.v, 64480), BitClear(p.t, 64480))]

copyVerticalBitsToV(p) ==
  [p EXCEPT !.v = BitOr(BitAnd(p.v, 1055), BitClear(p.t, 1055))]

SetControlRegister(p, value) ==
  [p EXCEPT !.t = BitOr(BitAnd(p.t, 29695), (value % 4) * 1024),
            !.flagIncrementBy32 = Bit(value, 2) = 1,
            !.spriteTableAddress = IF Bit(value, 3) = 0 THEN 0 ELSE 4096,
            !.backgroundTableAddress = IF Bit(value, 4) = 0 THEN 0 ELSE 4096,
            !.flagLargeSprites = Bit(value, 5) = 1,
            !.flagNMIOnVBlank = Bit(value, 7) = 1]

SetMaskRegister(p, value) ==
  [p EXCEPT !.flagColourMode = Bit(value, 0) = 0,
            !.flagClipBackground = Bit(value, 1) = 0,
            !.flagClipSprites = Bit(value, 2) = 0,
            !.flagShowBackground = Bit(value, 3) = 1,
            !.flagShowSprites = Bit(value, 4) = 1,
            !.flagRedEmphasis = Bit(value, 5) = 1,
            !.flagGreenEmphasis = Bit(value, 6) = 1,
            !.flagBlueEmphasis = Bit(value, 7) = 1]

SetSPRAddress(p, address) == [p EXCEPT !.sprIOAddress = address]

\* a sprite write that leaves the sprite address where it was
WriteSPRInPlace(p, value) ==
  [p EXCEPT !.sprRAM = Wr(p.sprRAM, p.sprIOAddress, value)]

WriteSPR(p, value) ==
  [p EXCEPT !.sprRAM = Wr(p.sprRAM, p.sprIOAddress, value),
            !.sprIOAddress = Byte(p.sprIOAddress + 1)]

ReadSPR(p) == Rd(p.sprRAM, p.sprIOAddress)

WriteScroll(p, value) ==
  IF p.w = 0
  THEN [p EXCEPT !.t = BitOr(BitAnd(p.t, 65504), value \div 8),
                 !.x = value % 8,
                 !.w = 1]
  ELSE [p EXCEPT !.t = BitOr(BitOr(BitAnd(p.t, 3103), (value % 8) * 4096),
                             (value \div 8) * 32),
                 !.w = 0]

\* a first address write that takes all eight bits of the value
WriteDataAddressUnmasked(p, value) ==
  IF p.w = 0
  THEN [p EXCEPT !.t = BitAnd(BitOr(BitAnd(p.t, 255), value * 256), 32767),
                 !.w = 1]
  ELSE LET t2 == BitOr(BitAnd(p.t, 65280), value)
       IN [p EXCEPT !.t = t2, !.v = t2, !.w = 0]

WriteDataAddress(p, value) ==
  IF p.w = 0
  THEN [p EXCEPT !.t = BitAnd(BitOr(BitAnd(p.t, 255), (value % 64) * 256), 32767),
                 !.w = 1]
  ELSE LET t2 == BitOr(BitAnd(p.t, 65280), value)
       IN [p EXCEPT !.t = t2, !.v = t2, !.w = 0]

\* a status read that leaves the VBlank flag set
StatusRegisterKeepingVBlank(p) ==
  [result |-> (IF p.flagScanlineSpritesMax THEN 32 ELSE 0)
              + (IF p.flagSprite0Hit THEN 64 ELSE 0)
              + (IF p.flagVBlankOutstanding THEN 128 ELSE 0),
   ppu |-> [p EXCEPT !.w = 0]]

\* PPU.StatusRegister: the byte returned and the PPU after the read
StatusRegister(p) ==
  [result |-> (IF p.flagScanlineSpritesMax THEN 32 ELSE 0)
              + (IF p.flagSprite0Hit THEN 64 ELSE 0)
              + (IF p.flagVBlankOutstanding THEN 128 ELSE 0),
   ppu |-> [p EXCEPT !.flagVBlankOutstanding = FALSE, !.w = 0]]

mapAddressNoPaletteMirror(c, address) ==
  LET a == address % 16384
  IN IF a >= 8192 /\ a <= 12287
     THEN CASE c.Mirror = "horizontal" ->
                 IF (a >= 9216 /\ a < 10240) \/ (a >= 11264 /\ a < 12288)
                 THEN a - 1024 ELSE a
            [] c.Mirror = "vertical" ->
                 IF a >= 10240 /\ a < 12288 THEN a - 2048 ELSE a
            [] c.Mirror = "singleLow" -> 8192 + (a % 1024)
            [] c.Mirror = "singleHigh" -> 9216 + (a % 1024)
            [] OTHER -> a
     ELSE a

\* a name-table fold that takes vertical mirroring for horizontal
mapAddressVerticalAsHorizontal(c, address) ==
  LET a == address % 16384
  IN IF a \in {16144, 16148, 16152, 16156} THEN a - 16
     ELSE IF a >= 8192 /\ a <= 12287
     THEN CASE c.Mirror \in {"horizontal", "vertical"} ->
                 IF (a >= 9216 /\ a < 10240) \/ (a >= 11264 /\ a < 12288)
                 THEN a - 1024 ELSE a
            [] c.Mirror = "singleLow" -> 8192 + (a % 1024)
            [] c.Mirror = "singleHigh" -> 9216 + (a % 1024)
            [] OTHER -> a
     ELSE a

\* PPU.mapAddress
mapAddress(c, address) ==
  LET a == address % 16384
  IN IF a \in {16144, 16148, 16152, 16156} THEN a - 16
     ELSE IF a >= 8192 /\ a <= 12287
     THEN CASE c.Mirror = "horizontal" ->
                 IF (a >= 9216 /\ a < 10240) \/ (a >= 11264 /\ a < 12288)
                 THEN a - 1024 ELSE a
            [] c.Mirror = "vertical" ->
                 IF a >= 10240 /\ a < 12288 THEN a - 2048 ELSE a
            [] c.Mirror = "singleLow" -> 8192 + (a % 1024)
            [] c.Mirror = "singleHigh" -> 9216 + (a % 1024)
            [] OTHER -> a
     ELSE a

-----------------------------------------------------------------------------
(* Mapper1 (MMC1).                                                         *)

NewMapper1 ==
  [shiftRegisterCount |-> 0, shiftRegister |-> 0,
   prgBankMode |-> 3, prgBank |-> 0,
   chr8kMode |-> FALSE,
   chrBank |-> [i \in 0..1 |-> 0],
   chrBankOffset |-> [i \in 0..1 |-> 0]]

\* the register update made by the fifth write: switch address & 0xE000
Mapper1Latch(m, c, address) ==
  LET sr == m.shiftRegister
      sel == (address \div 8192) * 8192
      same == [m1 |-> m, cart |-> c, exit |-> 0]
  IN CASE sel = 32768 ->
            [same EXCEPT !.cart.Mirror =
                           CASE sr % 4 = 0 -> "singleLow"
                             [] sr % 4 = 1 -> "singleHigh"
                             [] sr % 4 = 2 -> "vertical"
                             [] OTHER      -> "horizontal",
                         !.m1.chr8kMode = Bit(sr, 4) = 0,
                         !.m1.prgBankMode = (sr \div 4) % 4]
       [] sel = 40960 ->
            [same EXCEPT !.m1.chrBank[0] = (sr % 32) \div 2,
                         !.m1.chrBankOffset[0] = (sr % 2) * 4096]
       [] sel = 49152 ->
            [same EXCEPT !.m1.chrBank[1] = (sr % 32) \div 2,
                         !.m1.chrBankOffset[1] = (sr % 2) * 4096]
       [] sel = 57344 ->
            [same EXCEPT !.m1.prgBank = sr % 16]
       [] OTHER -> same

\* a serial port that does not restart its count after the fifth write
Mapper1WriteNoCountReset(m, c, address, value, isPPU) ==
  LET same == [m1 |-> m, cart |-> c, exit |-> 0]
      \* m.CHR[b][i] = value, a panic when the bank does not exist
      chr(b, i) == IF b >= c.numCHR \/ i >= 8192 THEN [same EXCEPT !.exit = -1]
                   ELSE [same EXCEPT !.cart.CHR = Wr(c.CHR, b * 8192 + i, value)]
  IN IF isPPU
     THEN IF address < 8192
          THEN IF m.chr8kMode
               THEN chr(m.chrBank[0], address)
               ELSE IF address < 4096
               THEN chr(m.chrBank[0], m.chrBankOffset[0] + address)
               ELSE chr(m.chrBank[1], m.chrBankOffset[1] + address - 4096)
          ELSE same
     ELSE IF address >= 24576 /\ address < 32768
     THEN [same EXCEPT !.cart.SRAM = Wr(c.SRAM, address % 8192, value)]
     ELSE IF address >= 32768
     THEN IF Bit(value, 7) # 0
          THEN [same EXCEPT !.m1.shiftRegisterCount = 0]
          ELSE LET m2 == [m EXCEPT !.shiftRegisterCount = @ + 1,
                                   !.shiftRegister =
                                      (m.shiftRegister \div 2) + (value % 2) * 16]
               IN IF m2.shiftRegisterCount >= 5
                  THEN Mapper1Latch(m2, c, address)
                  ELSE [m1 |-> m2, cart |-> c, exit |-> 0]
     ELSE same

\* a shift register one bit too long: the bit written before the run of
\* five is still in it when the fifth write latches
Mapper1WriteSixBitRegister(m, c, address, value, isPPU) ==
  LET same == [m1 |-> m, cart |-> c, exit |-> 0]
      \* m.CHR[b][i] = value, a panic when the bank does not exist
      chr(b, i) == IF b >= c.numCHR \/ i >= 8192 THEN [same EXCEPT !.exit = -1]
                   ELSE [same EXCEPT !.cart.CHR = Wr(c.CHR, b * 8192 + i, value)]
  IN IF isPPU
     THEN IF address < 8192
          THEN IF m.chr8kMode
               THEN chr(m.chrBank[0], address)
               ELSE IF address < 4096
               THEN chr(m.chrBank[0], m.chrBankOffset[0] + address)
               ELSE chr(m.chrBank[1], m.chrBankOffset[1] + address - 4096)
          ELSE same
     ELSE IF address >= 24576 /\ address < 32768
     THEN [same EXCEPT !.cart.SRAM = Wr(c.SRAM, address % 8192, value)]
     ELSE IF address >= 32768
     THEN IF Bit(value, 7) # 0
          THEN [same EXCEPT !.m1.shiftRegisterCount = 0]
          ELSE LET m2 == [m EXCEPT !.shiftRegisterCount = @ + 1,
                                   !.shiftRegister =
                                      (m.shiftRegister \div 2) + (value % 2) * 32]
               IN IF m2.shiftRegisterCount = 5
                  THEN [Mapper1Latch([m2 EXCEPT !.shiftRegister = @ % 32], c, address)
                          EXCEPT !.m1.shiftRegisterCount = 0,
                                 !.m1.shiftRegister = m2.shiftRegister]
                  ELSE [m1 |-> m2, cart |-> c, exit |-> 0]
     ELSE same

\* Mapper1.Write
Mapper1Write(m, c, address, value, isPPU) ==
  LET same == [m1 |-> m, cart |-> c, exit |-> 0]
      \* m.CHR[b][i] = value, a panic when the bank does not exist
      chr(b, i) == IF b >= c.numCHR \/ i >= 8192 THEN [same EXCEPT !.exit = -1]
                   ELSE [same EXCEPT !.cart.CHR = Wr(c.CHR, b * 8192 + i, value)]
  IN IF isPPU
     THEN IF address < 8192
          THEN IF m.chr8kMode
               THEN chr(m.chrBank[0], address)
               ELSE IF address < 4096
               THEN chr(m.chrBank[0], m.chrBankOffset[0] + address)
               ELSE chr(m.chrBank[1], m.chrBankOffset[1] + address - 4096)
          ELSE same
     ELSE IF address >= 24576 /\ address < 32768
     THEN [same EXCEPT !.cart.SRAM = Wr(c.SRAM, address % 8192, value)]
     ELSE IF address >= 32768
     THEN IF Bit(value, 7) # 0
          THEN [same EXCEPT !.m1.shiftRegisterCount = 0]
          ELSE LET m2 == [m EXCEPT !.shiftRegisterCount = @ + 1,
                                   !.shiftRegister =
                                      (m.shiftRegister \div 2) + (value % 2) * 16]
               IN IF m2.shiftRegisterCount = 5
                  THEN [Mapper1Latch(m2, c, address) EXCEPT !.m1.shiftRegisterCount = 0]
                  ELSE [m1 |-> m2, cart |-> c, exit |-> 0]
     ELSE same

-----------------------------------------------------------------------------
(* Joypad.                                                                 *)

NewJoypad ==
  [A |-> FALSE, B |-> FALSE, Select |-> FALSE, Start |-> FALSE,
   Up |-> FALSE, Down |-> FALSE, Left |-> FALSE, Right |-> FALSE,
   readKeys |-> FALSE, i |-> 0, strobe |-> FALSE]

\* Joypad.SetReadKeysCallback
SetReadKeysCallback(j) == [j EXCEPT !.readKeys = TRUE]

\* the host device with no key held, and with only the key named k held
NoKeys ==
  [A |-> FALSE, B |-> FALSE, Select |-> FALSE, Start |-> FALSE,
   Up |-> FALSE, Down |-> FALSE, Left |-> FALSE, Right |-> FALSE]

JoypadReadNoWrap(j) ==
  LET pressed == IF j.strobe THEN j.A
                 ELSE CASE j.i = 0 -> j.A
                        [] j.i = 1 -> j.B
                        [] j.i = 2 -> j.Select
                        [] j.i = 3 -> j.Start
                        [] j.i = 4 -> j.Up
                        [] j.i = 5 -> j.Down
                        [] j.i = 6 -> j.Left
                        [] j.i = 7 -> j.Right
                        [] OTHER -> FALSE
      j2 == IF j.strobe THEN j ELSE [j EXCEPT !.i = j.i + 1]
  IN [result |-> IF pressed THEN 1 ELSE 0, joy |-> j2]

\* Joypad.Read: the byte returned and the joypad after the read
JoypadRead(j) ==
  LET pressed == IF j.strobe THEN j.A
                 ELSE CASE j.i = 0 -> j.A
                        [] j.i = 1 -> j.B
                        [] j.i = 2 -> j.Select
                        [] j.i = 3 -> j.Start
                        [] j.i = 4 -> j.Up
                        [] j.i = 5 -> j.Down
                        [] j.i = 6 -> j.Left
                        [] j.i = 7 -> j.Right
                        [] OTHER -> FALSE
      j2 == IF j.strobe THEN j
            ELSE [j EXCEPT !.i = IF j.i + 1 = 8 THEN 0 ELSE j.i + 1]
  IN [result |-> IF pressed THEN 1 ELSE 0, joy |-> j2]

\* Joypad.Write; keys is what the registered readKeys callback finds on the
\* host device when it runs, and it runs only if one was registered
JoypadWrite(j, value, keys) ==
  LET j2 == [j EXCEPT !.i = 0, !.strobe = value % 2 # 0]
  IN IF j.readKeys
     THEN [j2 EXCEPT !.A = keys.A, !.B = keys.B, !.Select = keys.Select,
                     !.Start = keys.Start, !.Up = keys.Up, !.Down = keys.Down,
                     !.Left = keys.Left, !.Right = keys.Right]
     ELSE j2

\* Mapper1.Read; -1 stands for Go's index-out-of-range panic and -2 for
\* the process exit of log.Fatalf
Mapper1Read(m, c, address, isPPU) ==
  LET chr(b, i) == IF b >= c.numCHR \/ i >= 8192 THEN -1 ELSE Rd(c.CHR, b * 8192 + i)
      prg(b, i) == IF b >= c.numPRG THEN -1 ELSE PRGByte(c, b, i)
      lo == address < 49152
      bankLow == m.prgBank - (m.prgBank % 2)       \* prgBank &^ 1
      bankHigh == m.prgBank - (m.prgBank % 2) + 1  \* prgBank | 1
  IN IF isPPU
     THEN IF m.chr8kMode
          THEN IF address < 8192 THEN chr(m.chrBank[0], address) ELSE -2
          ELSE IF address < 4096
               THEN chr(m.chrBank[0], m.chrBankOffset[0] + address)
               ELSE IF address < 8192
               THEN chr(m.chrBank[1], m.chrBankOffset[1] + address - 4096)
               ELSE -2
     ELSE IF address >= 24576 /\ address <= 32767
     THEN Rd(c.SRAM, address - 24576)
     ELSE IF address < 24576 THEN -2
     ELSE CASE m.prgBankMode \in {0, 1} ->
                 IF lo THEN prg(bankLow, address - 32768)
                       ELSE prg(bankHigh, address - 49152)
            [] m.prgBankMode = 2 ->
                 IF lo THEN prg(0, address - 32768)
                       ELSE prg(m.prgBank, address - 49152)
            [] m.prgBankMode = 3 ->
                 IF lo THEN prg(m.prgBank, address - 32768)
                       ELSE prg(c.numPRG - 1, address - 49152)
            [] OTHER -> 0

-----------------------------------------------------------------------------
(* Mapper0 (NROM) and Mapper2 (UNROM).                                     *)

\* NewMapper0: the switch on len(cart.PRG) has cases 1 and 2 only
NewMapper0MirrorOff(c) ==
  [prgBank1 |-> 0, prgBank2 |-> IF c.numPRG \in {1, 2} THEN 1 ELSE 0]

NewMapper0(c) ==
  [prgBank1 |-> 0, prgBank2 |-> IF c.numPRG = 2 THEN 1 ELSE 0]

\* Mapper0.Read; -1 stands for Go's index-out-of-range panic and -2 for
\* the process exit of log.Fatalf
Mapper0Read(m, c, address, isPPU) ==
  LET prg(b, i) == IF b >= c.numPRG THEN -1 ELSE PRGByte(c, b, i)
  IN IF isPPU
     THEN IF address < 8192 THEN Rd(c.CHR, address) ELSE -2
     ELSE IF address >= 49152 THEN prg(m.prgBank2, address - 49152)
     ELSE IF address >= 32768 THEN prg(m.prgBank1, address - 32768)
     ELSE IF address >= 24576 THEN Rd(c.SRAM, address - 24576)
     ELSE -2

Mapper0WriteHalfSRAM(c, address, value, isPPU) ==
  IF ~isPPU /\ address >= 24576 /\ address < 32768
  THEN [c EXCEPT !.SRAM = Wr(@, (address - 24576) % 4096, value)]
  ELSE IF isPPU /\ address < 8192
  THEN [c EXCEPT !.CHR = Wr(@, address, value)]
  ELSE c

\* Mapper0.Write: the cartridge after the write (the mapper has no register)
Mapper0Write(c, address, value, isPPU) ==
  IF ~isPPU /\ address >= 24576 /\ address < 32768
  THEN [c EXCEPT !.SRAM = Wr(@, address - 24576, value)]
  ELSE IF isPPU /\ address < 8192
  THEN [c EXCEPT !.CHR = Wr(@, address, value)]
  ELSE c

NewMapper2(c) == [prgSwitchableBank |-> 0, prgLastBank |-> c.numPRG - 1]

Mapper2ReadBankedCHR(m, c, address, isPPU) ==
  LET prg(b, i) == IF b < 0 \/ b >= c.numPRG THEN -1 ELSE PRGByte(c, b, i)
  IN IF isPPU
     THEN IF address < 8192
          THEN Rd(c.CHR, m.prgSwitchableBank * 8192 + address) ELSE -2
     ELSE IF address >= 49152 THEN prg(m.prgLastBank, address - 49152)
     ELSE IF address >= 32768 THEN prg(m.prgSwitchableBank, address - 32768)
     ELSE -2

\* Mapper2.Read, with the sentinels of Mapper0Read
Mapper2Read(m, c, address, isPPU) ==
  LET prg(b, i) == IF b < 0 \/ b >= c.numPRG THEN -1 ELSE PRGByte(c, b, i)
  IN IF isPPU
     THEN IF address < 8192 THEN Rd(c.CHR, address) ELSE -2
     ELSE IF address >= 49152 THEN prg(m.prgLastBank, address - 49152)
     ELSE IF address >= 32768 THEN prg(m.prgSwitchableBank, address - 32768)
     ELSE -2

\* Mapper2.Write: the mapper and the cartridge after the write
Mapper2Write(m, c, address, value, isPPU) ==
  IF isPPU /\ address < 8192
  THEN [unrom |-> m, cart |-> [c EXCEPT !.CHR = Wr(@, address, value)]]
  ELSE IF ~isPPU /\ address >= 32768
  THEN [unrom |-> [m EXCEPT !.prgSwitchableBank = value % 8], cart |-> c]
  ELSE [unrom |-> m, cart |-> c]

-----------------------------------------------------------------------------
(* The Console graph.  A world w is the record of all components; the      *)
(* operators below take a world and return the world after the call.       *)
(* Cartridge embeds its Mapper, so Cart.Read / Write / IRQ / NextScanline  *)
(* go to the mapper named by cart.mapper.                                  *)

\* keys is an input of the call, not state: what the host's key-sampling
\* callback would read during it
WorldWith(keys) ==
  [cpu |-> cpu, ppu |-> ppu, m1 |-> m1, m4 |-> m4, nrom |-> nrom, unrom |-> unrom,
   cart |-> cart, joy |-> joy, exit |-> exit, keys |-> keys]

World == WorldWith(NoKeys)

\* the world after a Go panic (-1) or a log.Fatalf (-2) ended the process
Exited(w, code) == IF w.exit = 0 THEN [w EXCEPT !.exit = code] ELSE w

CartRead(w, address, isPPU) ==
  CASE w.cart.mapper = 0 -> Mapper0Read(w.nrom, w.cart, address, isPPU)
    [] w.cart.mapper = 1 -> Mapper1Read(w.m1, w.cart, address, isPPU)
    [] w.cart.mapper = 2 -> Mapper2Read(w.unrom, w.cart, address, isPPU)
    [] w.cart.mapper = 4 -> Mapper4Read(w.m4, w.cart, address, isPPU)
    [] OTHER -> 0

CartWrite(w, address, value, isPPU) ==
  CASE w.cart.mapper = 0 ->
         [w EXCEPT !.cart = Mapper0Write(w.cart, address, value, isPPU)]
    [] w.cart.mapper = 2 ->
         Bind(Mapper2Write(w.unrom, w.cart, address, value, isPPU), LAMBDA r :
           [w EXCEPT !.unrom = r.unrom, !.cart = r.cart])
    [] w.cart.mapper = 1 ->
         Bind(Mapper1Write(w.m1, w.cart, address, value, isPPU), LAMBDA r :
           IF r.exit # 0 THEN Exited(w, r.exit)
           ELSE [w EXCEPT !.m1 = r.m1, !.cart = r.cart])
    [] w.cart.mapper = 4 ->
         Bind(Mapper4Write(w.m4, w.cart, address, value, isPPU), LAMBDA r :
           [w EXCEPT !.m4 = r.m4, !.cart = r.cart])
    [] OTHER -> w

\* Cart.IRQ: the world after the poll and the value returned
CartIRQ(w) ==
  IF w.cart.mapper = 4
  THEN Bind(Mapper4IRQ(w.m4), LAMBDA r :
         [w |-> [w EXCEPT !.m4 = r.m4], isIRQ |-> r.isIRQ])
  ELSE [w |-> w, isIRQ |-> FALSE]

\* a notification that reaches the mapper twice
CartNextScanlineTwice(w) ==
  IF w.cart.mapper = 4 THEN [w EXCEPT !.m4 = NextScanline(NextScanline(w.m4))] ELSE w

CartNextScanline(w) ==
  IF w.cart.mapper = 4 THEN [w EXCEPT !.m4 = NextScanline(w.m4)] ELSE w

\* PPU.read
ppuRead(w, address) ==
  LET a == mapAddress(w.cart, address)
  IN IF a < 8192 THEN CartRead(w, a, TRUE) ELSE Rd(w.ppu.ram, a)

\* PPU.read as a call: the world after it and the byte returned
ppuReadCall(w, address) ==
  Bind(ppuRead(w, address), LAMBDA b :
    IF b < 0 THEN [w |-> Exited(w, b), result |-> 0]
    ELSE [w |-> w, result |-> b])

\* PPU.write
ppuWrite(w, address, value) ==
  LET a == mapAddress(w.cart, address)
  IN IF a < 8192 THEN CartWrite(w, a, value, TRUE)
     ELSE [w EXCEPT !.ppu.ram = Wr(w.ppu.ram, a, value)]

\* PPU.WriteData
WriteData(w, value) ==
  [ppuWrite(w, w.ppu.v, value) EXCEPT
     !.ppu.v = Word(@ + (IF w.ppu.flagIncrementBy32 THEN 32 ELSE 1))]

\* a data read that returns the byte at v whatever the address
ReadDataUnbuffered(w) ==
  Bind(ppuRead(w, w.ppu.v), LAMBDA buf :
    IF buf < 0 THEN [w |-> Exited(w, buf), result |-> 0]
    ELSE
    [w |-> [w EXCEPT !.ppu.readBuffer = buf,
                     !.ppu.v = Word(@ + (IF w.ppu.flagIncrementBy32 THEN 32 ELSE 1))],
     result |-> buf])

\* PPU.ReadData: the world after the read and the byte returned
ReadData(w) ==
  Bind(ppuRead(w, w.ppu.v), LAMBDA buf :
    IF buf < 0 THEN [w |-> Exited(w, buf), result |-> 0]
    ELSE
    [w |-> [w EXCEPT !.ppu.readBuffer = buf,
                     !.ppu.v = Word(@ + (IF w.ppu.flagIncrementBy32 THEN 32 ELSE 1))],
     result |-> IF w.ppu.v % 16384 <= 16127 THEN w.ppu.readBuffer ELSE buf])

-----------------------------------------------------------------------------
(* CPU memory bus.                                                         *)

StackBase == 256
ResetVector == 65532
InterruptVector == 65534
NMIVector == 65530

\* a RAM index that forgets the 2 KiB mirror
ramIndexNoMirror(address) == address

\* the index address&0x7FF used by CPU.read and CPU.write below $2000
ramIndex(address) == address % 2048

\* CPU.read: the world after the read and the byte returned
read(w, address) ==
  IF address < 8192
  THEN [w |-> w, result |-> Rd(w.cpu.RAM, ramIndex(address))]
  ELSE IF address >= 8192 /\ address < 16384
  THEN CASE address % 8 = 2 ->
              LET r == StatusRegister(w.ppu)
              IN [w |-> [w EXCEPT !.ppu = r.ppu], result |-> r.result]
         [] address % 8 = 4 -> [w |-> w, result |-> ReadSPR(w.ppu)]
         [] address % 8 = 7 -> ReadData(w)
         [] OTHER -> [w |-> w, result |-> 0]
  ELSE IF address = 16406
  THEN LET r == JoypadRead(w.joy[0])
       IN [w |-> [w EXCEPT !.joy[0] = r.joy], result |-> r.result]
  ELSE IF address = 16407
  THEN LET r == JoypadRead(w.joy[1])
       IN [w |-> [w EXCEPT !.joy[1] = r.joy], result |-> r.result]
  ELSE IF address >= 24576 /\ address <= 65535
  THEN Bind(CartRead(w, address, FALSE), LAMBDA b :
         IF b < 0 THEN [w |-> Exited(w, b), result |-> 0]
         ELSE [w |-> w, result |-> b])
  ELSE [w |-> w, result |-> 255]

\* the 256 reads and WriteSPR calls of the OAM DMA loop, from index i on
\* one pass of the loop of the $4014 write on the loop state st = [w, i]
dmaLoopBody(st, value) ==
  Bind(read(st.w, Word(value * 256 + st.i)), LAMBDA r :
    [w |-> [r.w EXCEPT !.ppu = WriteSPR(r.w.ppu, r.result)], i |-> st.i + 1])

\* for i = 0; i < 0x100; i++ { ... }: at most k passes, evaluated by halving k
RECURSIVE dmaLoop(_, _, _)
dmaLoop(st, value, k) ==
  IF ~(st.i < 256) THEN st
  ELSE IF k = 1 THEN dmaLoopBody(st, value)
  ELSE Bind(dmaLoop(st, value, k \div 2), LAMBDA h :
         IF ~(h.i < 256) THEN h ELSE dmaLoop(h, value, k - k \div 2))

\* CPU.write: the world after the write and the extra cycles returned
write(w, address, value) ==
  IF address < 8192
  THEN [w |-> [w EXCEPT !.cpu.RAM = Wr(w.cpu.RAM, ramIndex(address), value)], cycles |-> 0]
  ELSE IF address >= 8192 /\ address < 16384
  THEN [w |-> CASE address % 8 = 0 -> [w EXCEPT !.ppu = SetControlRegister(w.ppu, value)]
                [] address % 8 = 1 -> [w EXCEPT !.ppu = SetMaskRegister(w.ppu, value)]
                [] address % 8 = 3 -> [w EXCEPT !.ppu = SetSPRAddress(w.ppu, value)]
                [] address % 8 = 4 -> [w EXCEPT !.ppu = WriteSPR(w.ppu, value)]
                [] address % 8 = 5 -> [w EXCEPT !.ppu = WriteScroll(w.ppu, value)]
                [] address % 8 = 6 -> [w EXCEPT !.ppu = WriteDataAddress(w.ppu, value)]
                [] address % 8 = 7 -> WriteData(w, value)
                [] OTHER -> w,
        cycles |-> 0]
  ELSE IF address = 16406
  THEN [w |-> [w EXCEPT !.joy[0] = JoypadWrite(w.joy[0], value, w.keys)], cycles |-> 0]
  ELSE IF address = 16407
  THEN [w |-> [w EXCEPT !.joy[1] = JoypadWrite(w.joy[1], value, w.keys)], cycles |-> 0]
  ELSE IF address = 16404
  THEN [w |-> dmaLoop([w |-> [w EXCEPT !.ppu = SetSPRAddress(w.ppu, 0)], i |-> 0], value, 256).w,
        cycles |-> 512]
  ELSE IF address >= 24576 /\ address <= 65535
  THEN [w |-> CartWrite(w, address, value, FALSE), cycles |-> 0]
  ELSE [w |-> w, cycles |-> 0]

\* CPU.read16
read16(w, address) ==
  Bind(read(w, address), LAMBDA lo :
  Bind(read(lo.w, Word(address + 1)), LAMBDA hi :
    [w |-> hi.w, result |-> lo.result + hi.result * 256]))

\* the high byte taken from address + 1, with the carry into the page
read16CarryingIntoPage(w, address) ==
  Bind(read(w, address), LAMBDA lo :
  Bind(read(lo.w, Word(address + 1)), LAMBDA hi :
    [w |-> hi.w, result |-> lo.result + hi.result * 256]))

\* CPU.read16WithPageBoundaryBug
read16WithPageBoundaryBug(w, address) ==
  LET high == IF address % 256 = 255 THEN address - 255 ELSE address + 1
  IN Bind(read(w, address), LAMBDA lo :
     Bind(read(lo.w, high), LAMBDA hi :
       [w |-> hi.w, result |-> lo.result + hi.result * 256]))

-----------------------------------------------------------------------------
(* CPU: stack, status byte and the instruction implementations.  Every     *)
(* implementation takes the world and the resolved operand address and     *)
(* returns the world after it and the extra cycles it reports.             *)

pagesEqual(p1, p2) == p1 \div 256 = p2 \div 256

signBitSet(value) == value >= 128

\* updateflagZero and updateflagSign
setZN(w, value) ==
  [w EXCEPT !.cpu.flagZero = value = 0, !.cpu.flagSign = value >= 128]

push8(w, value) ==
  [write(w, StackBase + w.cpu.SP, value).w EXCEPT !.cpu.SP = Byte(w.cpu.SP + 255)]

pop8(w) ==
  Bind(read(w, StackBase + w.cpu.SP + 1), LAMBDA r :
    [w |-> [r.w EXCEPT !.cpu.SP = Byte(w.cpu.SP + 1)], result |-> r.result])

push16(w, value) ==
  Bind(write(w, StackBase + w.cpu.SP - 1, value % 256), LAMBDA a :
  Bind(write(a.w, StackBase + w.cpu.SP, value \div 256), LAMBDA b :
    [b.w EXCEPT !.cpu.SP = Byte(w.cpu.SP + 254)]))

pop16(w) ==
  Bind(read(w, StackBase + w.cpu.SP + 1), LAMBDA low :
  Bind(read(low.w, StackBase + w.cpu.SP + 2), LAMBDA high :
    [w |-> [high.w EXCEPT !.cpu.SP = Byte(w.cpu.SP + 2)],
     result |-> high.result * 256 + low.result]))

\* CPU.P: the flags packed into the status byte, bit 5 always set
P(c) ==
  (IF c.flagCarry THEN 1 ELSE 0) + (IF c.flagZero THEN 2 ELSE 0)
  + (IF c.flagInterruptDisable THEN 4 ELSE 0) + (IF c.flagDecimalMode THEN 8 ELSE 0)
  + (IF c.flagBreak THEN 16 ELSE 0) + 32
  + (IF c.flagOverflow THEN 64 ELSE 0) + (IF c.flagSign THEN 128 ELSE 0)

interrupt(w) ==
  Bind(push16(w, w.cpu.PC), LAMBDA a :
  Bind(push8(a, P(a.cpu)), LAMBDA b :
  Bind(read16(b, InterruptVector), LAMBDA v :
    [w |-> [v.w EXCEPT !.cpu.PC = v.result, !.cpu.flagInterruptDisable = TRUE],
     cycles |-> 7])))

NMI(w) ==
  Bind(push16(w, w.cpu.PC), LAMBDA a :
  Bind(push8(a, P(a.cpu)), LAMBDA b :
  Bind(read16(b, NMIVector), LAMBDA v :
    [w |-> [v.w EXCEPT !.cpu.PC = v.result, !.cpu.flagInterruptDisable = TRUE],
     cycles |-> 7])))

\* an adder that drops the carry-in
adcNoCarryIn(w, address) ==
  Bind(read(w, address), LAMBDA r :
    LET value == r.result
        c == r.w.cpu
        sum == c.A + value
        aSign == signBitSet(c.A)
        valueSign == signBitSet(value)
        resultSign == signBitSet(Byte(sum))
        w2 == [r.w EXCEPT !.cpu.flagCarry = sum > 255,
                          !.cpu.A = Byte(sum),
                          !.cpu.flagOverflow = (aSign /\ valueSign /\ ~resultSign)
                                               \/ (~aSign /\ ~valueSign /\ resultSign)]
    IN [w |-> setZN(w2, Byte(sum)), cycles |-> 0])

adc(w, address) ==
  Bind(read(w, address), LAMBDA r :
    LET value == r.result
        c == r.w.cpu
        carry == IF c.flagCarry THEN 1 ELSE 0
        sum == c.A + value + carry
        aSign == signBitSet(c.A)
        valueSign == signBitSet(value)
        resultSign == signBitSet(Byte(sum))
        w2 == [r.w EXCEPT !.cpu.flagCarry = sum > 255,
                          !.cpu.A = Byte(sum),
                          !.cpu.flagOverflow = (aSign /\ valueSign /\ ~resultSign)
                                               \/ (~aSign /\ ~valueSign /\ resultSign)]
    IN [w |-> setZN(w2, Byte(sum)), cycles |-> 0])

\* a subtractor that takes the operand's sign as it is for the overflow
sbcOperandSignKept(w, address) ==
  Bind(read(w, address), LAMBDA r :
    LET value == r.result
        c == r.w.cpu
        carry == IF ~c.flagCarry THEN 1 ELSE 0
        diff == c.A - value - carry
        aSign == signBitSet(c.A)
        valueSign == signBitSet(value)
        resultSign == signBitSet(Byte(diff + 512))
        w2 == [r.w EXCEPT !.cpu.flagCarry = diff >= 0,
                          !.cpu.A = Byte(diff + 512),
                          !.cpu.flagOverflow = (aSign /\ valueSign /\ ~resultSign)
                                               \/ (~aSign /\ ~valueSign /\ resultSign)]
    IN [w |-> setZN(w2, Byte(diff + 512)), cycles |-> 0])

sbc(w, address) ==
  Bind(read(w, address), LAMBDA r :
    LET value == r.result
        c == r.w.cpu
        carry == IF ~c.flagCarry THEN 1 ELSE 0
        diff == c.A - value - carry
        aSign == signBitSet(c.A)
        valueSign == ~signBitSet(value)
        resultSign == signBitSet(Byte(diff + 512))
        w2 == [r.w EXCEPT !.cpu.flagCarry = diff >= 0,
                          !.cpu.A = Byte(diff + 512),
                          !.cpu.flagOverflow = (aSign /\ valueSign /\ ~resultSign)
                                               \/ (~aSign /\ ~valueSign /\ resultSign)]
    IN [w |-> setZN(w2, Byte(diff + 512)), cycles |-> 0])

and(w, address) ==
  Bind(read(w, address), LAMBDA r :
    LET a == BitAnd(r.w.cpu.A, r.result)
    IN [w |-> setZN([r.w EXCEPT !.cpu.A = a], a), cycles |-> 0])

ora(w, address) ==
  Bind(read(w, address), LAMBDA r :
    LET a == BitOr(r.w.cpu.A, r.result)
    IN [w |-> setZN([r.w EXCEPT !.cpu.A = a], a), cycles |-> 0])

eor(w, address) ==
  Bind(read(w, address), LAMBDA r :
    LET a == BitXor(r.w.cpu.A, r.result)
    IN [w |-> setZN([r.w EXCEPT !.cpu.A = a], a), cycles |-> 0])

asl(w, address) ==
  Bind(read(w, address), LAMBDA r :
    LET value == Byte(r.result * 2)
        w2 == setZN([r.w EXCEPT !.cpu.flagCarry = r.result >= 128], value)
    IN write(w2, address, value))

asla(w, address) ==
  LET a == Byte(w.cpu.A * 2)
  IN [w |-> setZN([w EXCEPT !.cpu.flagCarry = w.cpu.A >= 128, !.cpu.A = a], a),
      cycles |-> 0]

lsr(w, address) ==
  Bind(read(w, address), LAMBDA r :
    LET value == r.result \div 2
        w2 == setZN([r.w EXCEPT !.cpu.flagCarry = r.result % 2 # 0], value)
    IN write(w2, address, value))

lsra(w, address) ==
  LET a == w.cpu.A \div 2
  IN [w |-> setZN([w EXCEPT !.cpu.flagCarry = w.cpu.A % 2 # 0, !.cpu.A = a], a),
      cycles |-> 0]

\* rolImpl: the rotated value; the flags are set by the callers below
rolImpl(c, value) == Byte(value * 2) + (IF c.flagCarry THEN 1 ELSE 0)

rorImpl(c, value) == (value \div 2) + (IF c.flagCarry THEN 128 ELSE 0)

rol(w, address) ==
  Bind(read(w, address), LAMBDA r :
    LET value == rolImpl(r.w.cpu, r.result)
        w2 == setZN([r.w EXCEPT !.cpu.flagCarry = r.result >= 128], value)
    IN write(w2, address, value))

rola(w, address) ==
  LET a == rolImpl(w.cpu, w.cpu.A)
  IN [w |-> setZN([w EXCEPT !.cpu.flagCarry = w.cpu.A >= 128, !.cpu.A = a], a),
      cycles |-> 0]

ror(w, address) ==
  Bind(read(w, address), LAMBDA r :
    LET value == rorImpl(r.w.cpu, r.result)
        w2 == setZN([r.w EXCEPT !.cpu.flagCarry = r.result % 2 # 0], value)
    IN write(w2, address, value))

rora(w, address) ==
  LET a == rorImpl(w.cpu, w.cpu.A)
  IN [w |-> setZN([w EXCEPT !.cpu.flagCarry = w.cpu.A % 2 # 0, !.cpu.A = a], a),
      cycles |-> 0]

doBranch(w, address) ==
  [w |-> [w EXCEPT !.cpu.PC = address],
   cycles |-> IF ~pagesEqual(w.cpu.PC, address) THEN 2 ELSE 1]

bit(w, address) ==
  Bind(read(w, address), LAMBDA r :
    LET result == BitAnd(r.w.cpu.A, r.result)
    IN [w |-> [r.w EXCEPT !.cpu.flagZero = result = 0,
                          !.cpu.flagOverflow = Bit(r.result, 6) # 0,
                          !.cpu.flagSign = Bit(r.result, 7) # 0],
        cycles |-> 0])

brk(w, address) ==
  Bind(push16(w, Word(w.cpu.PC + 1)), LAMBDA a :
  Bind([a EXCEPT !.cpu.flagBreak = TRUE], LAMBDA b :
  Bind(push8(b, P(b.cpu)), LAMBDA d :
  Bind(read16(d, InterruptVector), LAMBDA v :
    [w |-> [v.w EXCEPT !.cpu.PC = v.result, !.cpu.flagInterruptDisable = TRUE],
     cycles |-> 0]))))

compare(w, a, m) ==
  LET result == Byte(a - m + 256)
  IN [setZN(w, result) EXCEPT !.cpu.flagCarry = a >= m]

cmp(w, address) ==
  Bind(read(w, address), LAMBDA r :
    [w |-> compare(r.w, r.w.cpu.A, r.result), cycles |-> 0])

cpx(w, address) ==
  Bind(read(w, address), LAMBDA r :
    [w |-> compare(r.w, r.w.cpu.X, r.result), cycles |-> 0])

cpy(w, address) ==
  Bind(read(w, address), LAMBDA r :
    [w |-> compare(r.w, r.w.cpu.Y, r.result), cycles |-> 0])

dec(w, address) ==
  Bind(read(w, address), LAMBDA r :
  Bind(write(r.w, address, Byte(r.result + 255)), LAMBDA wr :
    [w |-> setZN(wr.w, Byte(r.result + 255)), cycles |-> wr.cycles]))

inc(w, address) ==
  Bind(read(w, address), LAMBDA r :
  Bind(write(r.w, address, Byte(r.result + 1)), LAMBDA wr :
    [w |-> setZN(wr.w, Byte(r.result + 1)), cycles |-> wr.cycles]))

jmp(w, address) == [w |-> [w EXCEPT !.cpu.PC = address], cycles |-> 0]

jsr(w, address) ==
  [w |-> [push16(w, Word(w.cpu.PC + 65535)) EXCEPT !.cpu.PC = address], cycles |-> 0]

pha(w, address) == [w |-> push8(w, w.cpu.A), cycles |-> 0]

php(w, address) == [w |-> push8(w, BitOr(P(w.cpu), 16)), cycles |-> 0]

pla(w, address) ==
  Bind(pop8(w), LAMBDA r :
    [w |-> setZN([r.w EXCEPT !.cpu.A = r.result], r.result), cycles |-> 0])

plp(w, address) ==
  Bind(pop8(w), LAMBDA r :
    LET p == BitAnd(r.result, 239)
    IN [w |-> [r.w EXCEPT !.cpu.flagCarry = Bit(p, 0) # 0,
                          !.cpu.flagZero = Bit(p, 1) # 0,
                          !.cpu.flagInterruptDisable = Bit(p, 2) # 0,
                          !.cpu.flagDecimalMode = Bit(p, 3) # 0,
                          !.cpu.flagBreak = Bit(p, 4) # 0,
                          !.cpu.flagOverflow = Bit(p, 6) # 0,
                          !.cpu.flagSign = Bit(p, 7) # 0],
        cycles |-> 0])

rti(w, address) ==
  Bind(pop16(plp(w, 0).w), LAMBDA r :
    [w |-> [r.w EXCEPT !.cpu.PC = r.result], cycles |-> 0])

rts(w, address) ==
  Bind(pop16(w), LAMBDA r :
    [w |-> [r.w EXCEPT !.cpu.PC = Word(r.result + 1)], cycles |-> 0])

txs(w, address) == [w |-> [w EXCEPT !.cpu.SP = w.cpu.X], cycles |-> 0]


-----------------------------------------------------------------------------
(* Addressing modes: the world after the operand fetch, the resolved       *)
(* address and whether a page boundary was crossed.                        *)

getAddrAbsolute(w) ==
  Bind(read16(w, Word(w.cpu.PC + 1)), LAMBDA r :
    [w |-> r.w, value |-> r.result, pageCrossed |-> FALSE])

getAddrAbsoluteX(w) ==
  Bind(read16(w, Word(w.cpu.PC + 1)), LAMBDA r :
    LET finalAddress == Word(r.result + r.w.cpu.X)
    IN [w |-> r.w, value |-> finalAddress,
        pageCrossed |-> ~pagesEqual(r.result, finalAddress)])

getAddrAbsoluteY(w) ==
  Bind(read16(w, Word(w.cpu.PC + 1)), LAMBDA r :
    LET finalAddress == Word(r.result + r.w.cpu.Y)
    IN [w |-> r.w, value |-> finalAddress,
        pageCrossed |-> ~pagesEqual(r.result, finalAddress)])

getAddrAccumulator(w) == [w |-> w, value |-> 0, pageCrossed |-> FALSE]

getAddrImmediate(w) == [w |-> w, value |-> Word(w.cpu.PC + 1), pageCrossed |-> FALSE]

getAddrImplied(w) == [w |-> w, value |-> 0, pageCrossed |-> FALSE]

getAddrIndirect(w) ==
  Bind(read16(w, Word(w.cpu.PC + 1)), LAMBDA a :
  Bind(read16WithPageBoundaryBug(a.w, a.result), LAMBDA r :
    [w |-> r.w, value |-> r.result, pageCrossed |-> FALSE]))

getAddrIndirectX(w) ==
  Bind(read(w, Word(w.cpu.PC + 1)), LAMBDA a :
  Bind(read16WithPageBoundaryBug(a.w, Byte(a.result + a.w.cpu.X)), LAMBDA r :
    [w |-> r.w, value |-> r.result, pageCrossed |-> FALSE]))

getAddrIndirectY(w) ==
  Bind(read(w, Word(w.cpu.PC + 1)), LAMBDA a :
  Bind(read16WithPageBoundaryBug(a.w, a.result), LAMBDA r :
    LET finalAddress == Word(r.result + r.w.cpu.Y)
    IN [w |-> r.w, value |-> finalAddress,
        pageCrossed |-> ~pagesEqual(r.result, finalAddress)]))

\* offset := int8(operand); -offset is taken in int8, so -(-128) is -128,
\* and uint16(-128) is 0xFF80
getAddrRelative(w) ==
  Bind(read(w, Word(w.cpu.PC + 1)), LAMBDA r :
    LET base == Word(w.cpu.PC + 2)
        offset == IF r.result >= 128 THEN r.result - 256 ELSE r.result
        negated == IF offset = -128 THEN 65408 ELSE -offset
        address == IF offset < 0 THEN Word(base - negated + 65536)
                   ELSE Word(base + offset)
    IN [w |-> r.w, value |-> address, pageCrossed |-> FALSE])

getAddrZeroPage(w) ==
  Bind(read(w, Word(w.cpu.PC + 1)), LAMBDA r :
    [w |-> r.w, value |-> r.result, pageCrossed |-> FALSE])

getAddrZeroPageX(w) ==
  Bind(read(w, Word(w.cpu.PC + 1)), LAMBDA r :
    [w |-> r.w, value |-> Byte(r.result + r.w.cpu.X), pageCrossed |-> FALSE])

getAddrZeroPageY(w) ==
  Bind(read(w, Word(w.cpu.PC + 1)), LAMBDA r :
    [w |-> r.w, value |-> Byte(r.result + r.w.cpu.Y), pageCrossed |-> FALSE])

-----------------------------------------------------------------------------
(* The opcode table and CPU.Step.                                          *)

\* CPU.loadInstructions: entry opcode + 1 is the instruction of that opcode
instructions ==
  <<
  (* 00 *) [Name |-> "BRK", Impl |-> "brk", Size |-> 1, NumBaseCycles |-> 7, NumPageCrossCycles |-> 0, GetAddressImpl |-> "Implied"],
  (* 01 *) [Name |-> "ORA", Impl |-> "ora", Size |-> 2, NumBaseCycles |-> 6, NumPageCrossCycles |-> 0, GetAddressImpl |-> "IndirectX"],
  (* 02 *) [Name |-> "x02", Impl |-> "xxx", Size |-> 0, NumBaseCycles |-> 0, NumPageCrossCycles |-> 0, GetAddressImpl |-> "nil"],
  (* 03 *) [Name |-> "SLO", Impl |-> "slo", Size |-> 2, NumBaseCycles |-> 8, NumPageCrossCycles |-> 0, GetAddressImpl |-> "IndirectX"],
  (* 04 *) [Name |-> "DOP", Impl |-> "dop", Size |-> 2, NumBaseCycles |-> 3, NumPageCrossCycles |-> 0, GetAddressImpl |-> "ZeroPage"],
  (* 05 *) [Name |-> "ORA", Impl |-> "ora", Size |-> 2, NumBaseCycles |-> 3, NumPageCrossCycles |-> 0, GetAddressImpl |-> "ZeroPage"],
  (* 06 *) [Name |-> "ASL", Impl |-> "asl", Size |-> 2, NumBaseCycles |-> 5, NumPageCrossCycles |-> 0, GetAddressImpl |-> "ZeroPage"],
  (* 07 *) [Name |-> "SLO", Impl |-> "slo", Size |-> 2, NumBaseCycles |-> 5, NumPageCrossCycles |-> 0, GetAddressImpl |-> "ZeroPage"],
  (* 08 *) [Name |-> "PHP", Impl |-> "php", Size |-> 1, NumBaseCycles |-> 3, NumPageCrossCycles |-> 0, GetAddressImpl |-> "Implied"],
  (* 09 *) [Name |-> "ORA", Impl |-> "ora", Size |-> 2, NumBaseCycles |-> 2, NumPageCrossCycles |-> 0, GetAddressImpl |-> "Immediate"],
  (* 0A *) [Name |-> "ASL", Impl |-> "asla", Size |-> 1, NumBaseCycles |-> 2, NumPageCrossCycles |-> 0, GetAddressImpl |-> "Accumulator"],
  (* 0B *) [Name |-> "ANC", Impl |-> "anc", Size |-> 2, NumBaseCycles |-> 2, NumPageCrossCycles |-> 0, GetAddressImpl |-> "Immediate"],
  (* 0C *) [Name |-> "TOP", Impl |-> "top", Size |-> 3, NumBaseCycles |-> 4, NumPageCrossCycles |-> 0, GetAddressImpl |-> "Absolute"],
  (* 0D *) [Name |-> "ORA", Impl |-> "ora", Size |-> 3, NumBaseCycles |-> 4, NumPageCrossCycles |-> 0, GetAddressImpl |-> "Absolute"],
  (* 0E *) [Name |-> "ASL", Impl |-> "asl", Size |-> 3, NumBaseCycles |-> 6, NumPageCrossCycles |-> 0, GetAddressImpl |-> "Absolute"],
  (* 0F *) [Name |-> "SLO", Impl |-> "slo", Size |-> 3, NumBaseCycles |-> 6, NumPageCrossCycles |-> 0, GetAddressImpl |-> "Absolute"],
  (* 10 *) [Name |-> "BPL", Impl |-> "bpl", Size |-> 2, NumBaseCycles |-> 2, NumPageCrossCycles |-> 0, GetAddressImpl |-> "Relative"],
  (* 11 *) [Name |-> "ORA", Impl |-> "ora", Size |-> 2, NumBaseCycles |-> 5, NumPageCrossCycles |-> 1, GetAddressImpl |-> "IndirectY"],
  (* 12 *) [Name |-> "x12", Impl |-> "xxx", Size |-> 0, NumBaseCycles |-> 0, NumPageCrossCycles |-> 0, GetAddressImpl |-> "nil"],
  (* 13 *) [Name |-> "SLO", Impl |-> "slo", Size |-> 2, NumBaseCycles |-> 8, NumPageCrossCycles |-> 0, GetAddressImpl |-> "IndirectY"],
  (* 14 *) [Name |-> "DOP", Impl |-> "dop", Size |-> 2, NumBaseCycles |-> 4, NumPageCrossCycles |-> 0, GetAddressImpl |-> "ZeroPageX"],
  (* 15 *) [Name |-> "ORA", Impl |-> "ora", Size |-> 2, NumBaseCycles |-> 4, NumPageCrossCycles |-> 0, GetAddressImpl |-> "ZeroPageX"],
  (* 16 *) [Name |-> "ASL", Impl |-> "asl", Size |-> 2, NumBaseCycles |-> 6, NumPageCrossCycles |-> 0, GetAddressImpl |-> "ZeroPageX"],
  (* 17 *) [Name |-> "SLO", Impl |-> "slo", Size |-> 2, NumBaseCycles |-> 6, NumPageCrossCycles |-> 0, GetAddressImpl |-> "ZeroPageX"],
  (* 18 *) [Name |-> "CLC", Impl |-> "clc", Size |-> 1, NumBaseCycles |-> 2, NumPageCrossCycles |-> 0, GetAddressImpl |-> "Implied"],
  (* 19 *) [Name |-> "ORA", Impl |-> "ora", Size |-> 3, NumBaseCycles |-> 4, NumPageCrossCycles |-> 1, GetAddressImpl |-> "AbsoluteY"],
  (* 1A *) [Name |-> "NOP", Impl |-> "nop", Size |-> 1, NumBaseCycles |-> 2, NumPageCrossCycles |-> 0, GetAddressImpl |-> "Implied"],
  (* 1B *) [Name |-> "SLO", Impl |-> "slo", Size |-> 3, NumBaseCycles |-> 7, NumPageCrossCycles |-> 0, GetAddressImpl |-> "AbsoluteY"],
  (* 1C *) [Name |-> "TOP", Impl |-> "top", Size |-> 3, NumBaseCycles |-> 4, NumPageCrossCycles |-> 1, GetAddressImpl |-> "AbsoluteX"],
  (* 1D *) [Name |-> "ORA", Impl |-> "ora", Size |-> 3, NumBaseCycles |-> 4, NumPageCrossCycles |-> 1, GetAddressImpl |-> "AbsoluteX"],
  (* 1E *) [Name |-> "ASL", Impl |-> "asl", Size |-> 3, NumBaseCycles |-> 7, NumPageCrossCycles |-> 0, GetAddressImpl |-> "AbsoluteX"],
  (* 1F *) [Name |-> "SLO", Impl |-> "slo", Size |-> 3, NumBaseCycles |-> 7, NumPageCrossCycles |-> 0, GetAddressImpl |-> "AbsoluteX"],
  (* 20 *) [Name |-> "JSR", Impl |-> "jsr", Size |-> 3, NumBaseCycles |-> 6, NumPageCrossCycles |-> 0, GetAddressImpl |-> "Absolute"],
  (* 21 *) [Name |-> "AND", Impl |-> "and", Size |-> 2, NumBaseCycles |-> 6, NumPageCrossCycles |-> 0, GetAddressImpl |-> "IndirectX"],
  (* 22 *) [Name |-> "x22", Impl |-> "xxx", Size |-> 0, NumBaseCycles |-> 0, NumPageCrossCycles |-> 0, GetAddressImpl |-> "nil"],
  (* 23 *) [Name |-> "RLA", Impl |-> "rla", Size |-> 2, NumBaseCycles |-> 8, NumPageCrossCycles |-> 0, GetAddressImpl |-> "IndirectX"],
  (* 24 *) [Name |-> "BIT", Impl |-> "bit", Size |-> 2, NumBaseCycles |-> 3, NumPageCrossCycles |-> 0, GetAddressImpl |-> "ZeroPage"],
  (* 25 *) [Name |-> "AND", Impl |-> "and", Size |-> 2, NumBaseCycles |-> 3, NumPageCrossCycles |-> 0, GetAddressImpl |-> "ZeroPage"],
  (* 26 *) [Name |-> "ROL", Impl |-> "rol", Size |-> 2, NumBaseCycles |-> 5, NumPageCrossCycles |-> 0, GetAddressImpl |-> "ZeroPage"],
  (* 27 *) [Name |-> "RLA", Impl |-> "rla", Size |-> 2, NumBaseCycles |-> 5, NumPageCrossCycles |-> 0, GetAddressImpl |-> "ZeroPage"],
  (* 28 *) [Name |-> "PLP", Impl |-> "plp", Size |-> 1, NumBaseCycles |-> 4, NumPageCrossCycles |-> 0, GetAddressImpl |-> "Implied"],
  (* 29 *) [Name |-> "AND", Impl |-> "and", Size |-> 2, NumBaseCycles |-> 2, NumPageCrossCycles |-> 0, GetAddressImpl |-> "Immediate"],
  (* 2A *) [Name |-> "ROL", Impl |-> "rola", Size |-> 1, NumBaseCycles |-> 2, NumPageCrossCycles |-> 0, GetAddressImpl |-> "Accumulator"],
  (* 2B *) [Name |-> "ANC", Impl |-> "anc", Size |-> 2, NumBaseCycles |-> 2, NumPageCrossCycles |-> 0, GetAddressImpl |-> "Immediate"],
  (* 2C *) [Name |-> "BIT", Impl |-> "bit", Size |-> 3, NumBaseCycles |-> 4, NumPageCrossCycles |-> 0, GetAddressImpl |-> "Absolute"],
  (* 2D *) [Name |-> "AND", Impl |-> "and", Size |-> 3, NumBaseCycles |-> 4, NumPageCrossCycles |-> 0, GetAddressImpl |-> "Absolute"],
  (* 2E *) [Name |-> "ROL", Impl |-> "rol", Size |-> 3, NumBaseCycles |-> 6, NumPageCrossCycles |-> 0, GetAddressImpl |-> "Absolute"],
  (* 2F *) [Name |-> "RLA", Impl |-> "rla", Size |-> 3, NumBaseCycles |-> 6, NumPageCrossCycles |-> 0, GetAddressImpl |-> "Absolute"],
  (* 30 *) [Name |-> "BMI", Impl |-> "bmi", Size |-> 2, NumBaseCycles |-> 2, NumPageCrossCycles |-> 0, GetAddressImpl |-> "Relative"],
  (* 31 *) [Name |-> "AND", Impl |-> "and", Size |-> 2, NumBaseCycles |-> 5, NumPageCrossCycles |-> 1, GetAddressImpl |-> "IndirectY"],
  (* 32 *) [Name |-> "x32", Impl |-> "xxx", Size |-> 0, NumBaseCycles |-> 0, NumPageCrossCycles |-> 0, GetAddressImpl |-> "nil"],
  (* 33 *) [Name |-> "RLA", Impl |-> "rla", Size |-> 2, NumBaseCycles |-> 8, NumPageCrossCycles |-> 0, GetAddressImpl |-> "IndirectY"],
  (* 34 *) [Name |-> "DOP", Impl |-> "dop", Size |-> 2, NumBaseCycles |-> 4, NumPageCrossCycles |-> 0, GetAddressImpl |-> "ZeroPageX"],
  (* 35 *) [Name |-> "AND", Impl |-> "and", Size |-> 2, NumBaseCycles |-> 4, NumPageCrossCycles |-> 0, GetAddressImpl |-> "ZeroPageX"],
  (* 36 *) [Name |-> "ROL", Impl |-> "rol", Size |-> 2, NumBaseCycles |-> 6, NumPageCrossCycles |-> 0, GetAddressImpl |-> "ZeroPageX"],
  (* 37 *) [Name |-> "RLA", Impl |-> "rla", Size |-> 2, NumBaseCycles |-> 6, NumPageCrossCycles |-> 0, GetAddressImpl |-> "ZeroPageX"],
  (* 38 *) [Name |-> "SEC", Impl |-> "sec", Size |-> 1, NumBaseCycles |-> 2, NumPageCrossCycles |-> 0, GetAddressImpl |-> "Implied"],
  (* 39 *) [Name |-> "AND", Impl |-> "and", Size |-> 3, NumBaseCycles |-> 4, NumPageCrossCycles |-> 1, GetAddressImpl |-> "AbsoluteY"],
  (* 3A *) [Name |-> "NOP", Impl |-> "nop", Size |-> 1, NumBaseCycles |-> 2, NumPageCrossCycles |-> 0, GetAddressImpl |-> "Implied"],
  (* 3B *) [Name |-> "RLA", Impl |-> "rla", Size |-> 3, NumBaseCycles |-> 7, NumPageCrossCycles |-> 0, GetAddressImpl |-> "AbsoluteY"],
  (* 3C *) [Name |-> "TOP", Impl |-> "top", Size |-> 3, NumBaseCycles |-> 4, NumPageCrossCycles |-> 1, GetAddressImpl |-> "AbsoluteX"],
  (* 3D *) [Name |-> "AND", Impl |-> "and", Size |-> 3, NumBaseCycles |-> 4, NumPageCrossCycles |-> 1, GetAddressImpl |-> "AbsoluteX"],
  (* 3E *) [Name |-> "ROL", Impl |-> "rol", Size |-> 3, NumBaseCycles |-> 7, NumPageCrossCycles |-> 0, GetAddressImpl |-> "AbsoluteX"],
  (* 3F *) [Name |-> "RLA", Impl |-> "rla", Size |-> 3, NumBaseCycles |-> 7, NumPageCrossCycles |-> 0, GetAddressImpl |-> "AbsoluteX"],
  (* 40 *) [Name |-> "RTI", Impl |-> "rti", Size |-> 1, NumBaseCycles |-> 6, NumPageCrossCycles |-> 0, GetAddressImpl |-> "Implied"],
  (* 41 *) [Name |-> "EOR", Impl |-> "eor", Size |-> 2, NumBaseCycles |-> 6, NumPageCrossCycles |-> 0, GetAddressImpl |-> "IndirectX"],
  (* 42 *) [Name |-> "x42", Impl |-> "xxx", Size |-> 0, NumBaseCycles |-> 0, NumPageCrossCycles |-> 0, GetAddressImpl |-> "nil"],
  (* 43 *) [Name |-> "SRE", Impl |-> "sre", Size |-> 2, NumBaseCycles |-> 8, NumPageCrossCycles |-> 0, GetAddressImpl |-> "IndirectX"],
  (* 44 *) [Name |-> "DOP", Impl |-> "dop", Size |-> 2, NumBaseCycles |-> 3, NumPageCrossCycles |-> 0, GetAddressImpl |-> "ZeroPage"],
  (* 45 *) [Name |-> "EOR", Impl |-> "eor", Size |-> 2, NumBaseCycles |-> 3, NumPageCrossCycles |-> 0, GetAddressImpl |-> "ZeroPage"],
  (* 46 *) [Name |-> "LSR", Impl |-> "lsr", Size |-> 2, NumBaseCycles |-> 5, NumPageCrossCycles |-> 0, GetAddressImpl |-> "ZeroPage"],
  (* 47 *) [Name |-> "SRE", Impl |-> "sre", Size |-> 2, NumBaseCycles |-> 5, NumPageCrossCycles |-> 0, GetAddressImpl |-> "ZeroPage"],
  (* 48 *) [Name |-> "PHA", Impl |-> "pha", Size |-> 1, NumBaseCycles |-> 3, NumPageCrossCycles |-> 0, GetAddressImpl |-> "Implied"],
  (* 49 *) [Name |-> "EOR", Impl |-> "eor", Size |-> 2, NumBaseCycles |-> 2, NumPageCrossCycles |-> 0, GetAddressImpl |-> "Immediate"],
  (* 4A *) [Name |-> "LSR", Impl |-> "lsra", Size |-> 1, NumBaseCycles |-> 2, NumPageCrossCycles |-> 0, GetAddressImpl |-> "Accumulator"],
  (* 4B *) [Name |-> "ALR", Impl |-> "alr", Size |-> 2, NumBaseCycles |-> 2, NumPageCrossCycles |-> 0, GetAddressImpl |-> "Immediate"],
  (* 4C *) [Name |-> "JMP", Impl |-> "jmp", Size |-> 3, NumBaseCycles |-> 3, NumPageCrossCycles |-> 0, GetAddressImpl |-> "Absolute"],
  (* 4D *) [Name |-> "EOR", Impl |-> "eor", Size |-> 3, NumBaseCycles |-> 4, NumPageCrossCycles |-> 0, GetAddressImpl |-> "Absolute"],
  (* 4E *) [Name |-> "LSR", Impl |-> "lsr", Size |-> 3, NumBaseCycles |-> 6, NumPageCrossCycles |-> 0, GetAddressImpl |-> "Absolute"],
  (* 4F *) [Name |-> "SRE", Impl |-> "sre", Size |-> 3, NumBaseCycles |-> 6, NumPageCrossCycles |-> 0, GetAddressImpl |-> "Absolute"],
  (* 50 *) [Name |-> "BVC", Impl |-> "bvc", Size |-> 2, NumBaseCycles |-> 2, NumPageCrossCycles |-> 0, GetAddressImpl |-> "Relative"],
  (* 51 *) [Name |-> "EOR", Impl |-> "eor", Size |-> 2, NumBaseCycles |-> 5, NumPageCrossCycles |-> 1, GetAddressImpl |-> "IndirectY"],
  (* 52 *) [Name |-> "x52", Impl |-> "xxx", Size |-> 0, NumBaseCycles |-> 0, NumPageCrossCycles |-> 0, GetAddressImpl |-> "nil"],
  (* 53 *) [Name |-> "SRE", Impl |-> "sre", Size |-> 2, NumBaseCycles |-> 8, NumPageCrossCycles |-> 0, GetAddressImpl |-> "IndirectY"],
  (* 54 *) [Name |-> "DOP", Impl |-> "dop", Size |-> 2, NumBaseCycles |-> 4, NumPageCrossCycles |-> 0, GetAddressImpl |-> "ZeroPageX"],
  (* 55 *) [Name |-> "EOR", Impl |-> "eor", Size |-> 2, NumBaseCycles |-> 4, NumPageCrossCycles |-> 0, GetAddressImpl |-> "ZeroPageX"],
  (* 56 *) [Name |-> "LSR", Impl |-> "lsr", Size |-> 2, NumBaseCycles |-> 6, NumPageCrossCycles |-> 0, GetAddressImpl |-> "ZeroPageX"],
  (* 57 *) [Name |-> "SRE", Impl |-> "sre", Size |-> 2, NumBaseCycles |-> 6, NumPageCrossCycles |-> 0, GetAddressImpl |-> "ZeroPageX"],
  (* 58 *) [Name |-> "CLI", Impl |-> "cli", Size |-> 1, NumBaseCycles |-> 2, NumPageCrossCycles |-> 0, GetAddressImpl |-> "Implied"],
  (* 59 *) [Name |-> "EOR", Impl |-> "eor", Size |-> 3, NumBaseCycles |-> 4, NumPageCrossCycles |-> 1, GetAddressImpl |-> "AbsoluteY"],
  (* 5A *) [Name |-> "NOP", Impl |-> "nop", Size |-> 1, NumBaseCycles |-> 2, NumPageCrossCycles |-> 0, GetAddressImpl |-> "Implied"],
  (* 5B *) [Name |-> "SRE", Impl |-> "sre", Size |-> 3, NumBaseCycles |-> 7, NumPageCrossCycles |-> 0, GetAddressImpl |-> "AbsoluteY"],
  (* 5C *) [Name |-> "TOP", Impl |-> "top", Size |-> 3, NumBaseCycles |-> 4, NumPageCrossCycles |-> 1, GetAddressImpl |-> "AbsoluteX"],
  (* 5D *) [Name |-> "EOR", Impl |-> "eor", Size |-> 3, NumBaseCycles |-> 4, NumPageCrossCycles |-> 1, GetAddressImpl |-> "AbsoluteX"],
  (* 5E *) [Name |-> "LSR", Impl |-> "lsr", Size |-> 3, NumBaseCycles |-> 7, NumPageCrossCycles |-> 0, GetAddressImpl |-> "AbsoluteX"],
  (* 5F *) [Name |-> "SRE", Impl |-> "sre", Size |-> 3, NumBaseCycles |-> 7, NumPageCrossCycles |-> 0, GetAddressImpl |-> "AbsoluteX"],
  (* 60 *) [Name |-> "RTS", Impl |-> "rts", Size |-> 1, NumBaseCycles |-> 6, NumPageCrossCycles |-> 0, GetAddressImpl |-> "Implied"],
  (* 61 *) [Name |-> "ADC", Impl |-> "adc", Size |-> 2, NumBaseCycles |-> 6, NumPageCrossCycles |-> 0, GetAddressImpl |-> "IndirectX"],
  (* 62 *) [Name |-> "x62", Impl |-> "xxx", Size |-> 0, NumBaseCycles |-> 0, NumPageCrossCycles |-> 0, GetAddressImpl |-> "nil"],
  (* 63 *) [Name |-> "RRA", Impl |-> "rra", Size |-> 2, NumBaseCycles |-> 8, NumPageCrossCycles |-> 0, GetAddressImpl |-> "IndirectX"],
  (* 64 *) [Name |-> "DOP", Impl |-> "dop", Size |-> 2, NumBaseCycles |-> 3, NumPageCrossCycles |-> 0, GetAddressImpl |-> "ZeroPage"],
  (* 65 *) [Name |-> "ADC", Impl |-> "adc", Size |-> 2, NumBaseCycles |-> 3, NumPageCrossCycles |-> 0, GetAddressImpl |-> "ZeroPage"],
  (* 66 *) [Name |-> "ROR", Impl |-> "ror", Size |-> 2, NumBaseCycles |-> 5, NumPageCrossCycles |-> 0, GetAddressImpl |-> "ZeroPage"],
  (* 67 *) [Name |-> "RRA", Impl |-> "rra", Size |-> 2, NumBaseCycles |-> 5, NumPageCrossCycles |-> 0, GetAddressImpl |-> "ZeroPage"],
  (* 68 *) [Name |-> "PLA", Impl |-> "pla", Size |-> 1, NumBaseCycles |-> 4, NumPageCrossCycles |-> 0, GetAddressImpl |-> "Implied"],
  (* 69 *) [Name |-> "ADC", Impl |-> "adc", Size |-> 2, NumBaseCycles |-> 2, NumPageCrossCycles |-> 0, GetAddressImpl |-> "Immediate"],
  (* 6A *) [Name |-> "ROR", Impl |-> "rora", Size |-> 1, NumBaseCycles |-> 2, NumPageCrossCycles |-> 0, GetAddressImpl |-> "Accumulator"],
  (* 6B *) [Name |-> "ARR", Impl |-> "arr", Size |-> 2, NumBaseCycles |-> 2, NumPageCrossCycles |-> 0, GetAddressImpl |-> "Immediate"],
  (* 6C *) [Name |-> "JMP", Impl |-> "jmp", Size |-> 3, NumBaseCycles |-> 5, NumPageCrossCycles |-> 0, GetAddressImpl |-> "Indirect"],
  (* 6D *) [Name |-> "ADC", Impl |-> "adc", Size |-> 3, NumBaseCycles |-> 4, NumPageCrossCycles |-> 0, GetAddressImpl |-> "Absolute"],
  (* 6E *) [Name |-> "ROR", Impl |-> "ror", Size |-> 3, NumBaseCycles |-> 6, NumPageCrossCycles |-> 0, GetAddressImpl |-> "Absolute"],
  (* 6F *) [Name |-> "RRA", Impl |-> "rra", Size |-> 3, NumBaseCycles |-> 6, NumPageCrossCycles |-> 0, GetAddressImpl |-> "Absolute"],
  (* 70 *) [Name |-> "BVS", Impl |-> "bvs", Size |-> 2, NumBaseCycles |-> 2, NumPageCrossCycles |-> 0, GetAddressImpl |-> "Relative"],
  (* 71 *) [Name |-> "ADC", Impl |-> "adc", Size |-> 2, NumBaseCycles |-> 5, NumPageCrossCycles |-> 1, GetAddressImpl |-> "IndirectY"],
  (* 72 *) [Name |-> "x72", Impl |-> "xxx", Size |-> 0, NumBaseCycles |-> 0, NumPageCrossCycles |-> 0, GetAddressImpl |-> "nil"],
  (* 73 *) [Name |-> "RRA", Impl |-> "rra", Size |-> 2, NumBaseCycles |-> 8, NumPageCrossCycles |-> 0, GetAddressImpl |-> "IndirectY"],
  (* 74 *) [Name |-> "DOP", Impl |-> "dop", Size |-> 2, NumBaseCycles |-> 4, NumPageCrossCycles |-> 0, GetAddressImpl |-> "ZeroPageX"],
  (* 75 *) [Name |-> "ADC", Impl |-> "adc", Size |-> 2, NumBaseCycles |-> 4, NumPageCrossCycles |-> 0, GetAddressImpl |-> "ZeroPageX"],
  (* 76 *) [Name |-> "ROR", Impl |-> "ror", Size |-> 2, NumBaseCycles |-> 6, NumPageCrossCycles |-> 0, GetAddressImpl |-> "ZeroPageX"],
  (* 77 *) [Name |-> "RRA", Impl |-> "rra", Size |-> 2, NumBaseCycles |-> 6, NumPageCrossCycles |-> 0, GetAddressImpl |-> "ZeroPageX"],
  (* 78 *) [Name |-> "SEI", Impl |-> "sei", Size |-> 1, NumBaseCycles |-> 2, NumPageCrossCycles |-> 0, GetAddressImpl |-> "Implied"],
  (* 79 *) [Name |-> "ADC", Impl |-> "adc", Size |-> 3, NumBaseCycles |-> 4, NumPageCrossCycles |-> 1, GetAddressImpl |-> "AbsoluteY"],
  (* 7A *) [Name |-> "NOP", Impl |-> "nop", Size |-> 1, NumBaseCycles |-> 2, NumPageCrossCycles |-> 0, GetAddressImpl |-> "Implied"],
  (* 7B *) [Name |-> "RRA", Impl |-> "rra", Size |-> 3, NumBaseCycles |-> 7, NumPageCrossCycles |-> 0, GetAddressImpl |-> "AbsoluteY"],
  (* 7C *) [Name |-> "TOP", Impl |-> "top", Size |-> 3, NumBaseCycles |-> 4, NumPageCrossCycles |-> 1, GetAddressImpl |-> "AbsoluteX"],
  (* 7D *) [Name |-> "ADC", Impl |-> "adc", Size |-> 3, NumBaseCycles |-> 4, NumPageCrossCycles |-> 1, GetAddressImpl |-> "AbsoluteX"],
  (* 7E *) [Name |-> "ROR", Impl |-> "ror", Size |-> 3, NumBaseCycles |-> 7, NumPageCrossCycles |-> 0, GetAddressImpl |-> "AbsoluteX"],
  (* 7F *) [Name |-> "RRA", Impl |-> "rra", Size |-> 3, NumBaseCycles |-> 7, NumPageCrossCycles |-> 0, GetAddressImpl |-> "AbsoluteX"],
  (* 80 *) [Name |-> "DOP", Impl |-> "dop", Size |-> 2, NumBaseCycles |-> 2, NumPageCrossCycles |-> 0, GetAddressImpl |-> "Immediate"],
  (* 81 *) [Name |-> "STA", Impl |-> "sta", Size |-> 2, NumBaseCycles |-> 6, NumPageCrossCycles |-> 0, GetAddressImpl |-> "IndirectX"],
  (* 82 *) [Name |-> "DOP", Impl |-> "dop", Size |-> 2, NumBaseCycles |-> 2, NumPageCrossCycles |-> 0, GetAddressImpl |-> "Immediate"],
  (* 83 *) [Name |-> "AAX", Impl |-> "aax", Size |-> 2, NumBaseCycles |-> 6, NumPageCrossCycles |-> 0, GetAddressImpl |-> "IndirectX"],
  (* 84 *) [Name |-> "STY", Impl |-> "sty", Size |-> 2, NumBaseCycles |-> 3, NumPageCrossCycles |-> 0, GetAddressImpl |-> "ZeroPage"],
  (* 85 *) [Name |-> "STA", Impl |-> "sta", Size |-> 2, NumBaseCycles |-> 3, NumPageCrossCycles |-> 0, GetAddressImpl |-> "ZeroPage"],
  (* 86 *) [Name |-> "STX", Impl |-> "stx", Size |-> 2, NumBaseCycles |-> 3, NumPageCrossCycles |-> 0, GetAddressImpl |-> "ZeroPage"],
  (* 87 *) [Name |-> "AAX", Impl |-> "aax", Size |-> 2, NumBaseCycles |-> 3, NumPageCrossCycles |-> 0, GetAddressImpl |-> "ZeroPage"],
  (* 88 *) [Name |-> "DEY", Impl |-> "dey", Size |-> 1, NumBaseCycles |-> 2, NumPageCrossCycles |-> 0, GetAddressImpl |-> "Implied"],
  (* 89 *) [Name |-> "DOP", Impl |-> "dop", Size |-> 2, NumBaseCycles |-> 2, NumPageCrossCycles |-> 0, GetAddressImpl |-> "Immediate"],
  (* 8A *) [Name |-> "TXA", Impl |-> "txa", Size |-> 1, NumBaseCycles |-> 2, NumPageCrossCycles |-> 0, GetAddressImpl |-> "Implied"],
  (* 8B *) [Name |-> "x8B", Impl |-> "xxx", Size |-> 0, NumBaseCycles |-> 0, NumPageCrossCycles |-> 0, GetAddressImpl |-> "nil"],
  (* 8C *) [Name |-> "STY", Impl |-> "sty", Size |-> 3, NumBaseCycles |-> 4, NumPageCrossCycles |-> 0, GetAddressImpl |-> "Absolute"],
  (* 8D *) [Name |-> "STA", Impl |-> "sta", Size |-> 3, NumBaseCycles |-> 4, NumPageCrossCycles |-> 0, GetAddressImpl |-> "Absolute"],
  (* 8E *) [Name |-> "STX", Impl |-> "stx", Size |-> 3, NumBaseCycles |-> 4, NumPageCrossCycles |-> 0, GetAddressImpl |-> "Absolute"],
  (* 8F *) [Name |-> "AAX", Impl |-> "aax", Size |-> 3, NumBaseCycles |-> 4, NumPageCrossCycles |-> 0, GetAddressImpl |-> "Absolute"],
  (* 90 *) [Name |-> "BCC", Impl |-> "bcc", Size |-> 2, NumBaseCycles |-> 2, NumPageCrossCycles |-> 0, GetAddressImpl |-> "Relative"],
  (* 91 *) [Name |-> "STA", Impl |-> "sta", Size |-> 2, NumBaseCycles |-> 6, NumPageCrossCycles |-> 0, GetAddressImpl |-> "IndirectY"],
  (* 92 *) [Name |-> "x92", Impl |-> "xxx", Size |-> 0, NumBaseCycles |-> 0, NumPageCrossCycles |-> 0, GetAddressImpl |-> "nil"],
  (* 93 *) [Name |-> "x93", Impl |-> "xxx", Size |-> 0, NumBaseCycles |-> 0, NumPageCrossCycles |-> 0, GetAddressImpl |-> "nil"],
  (* 94 *) [Name |-> "STY", Impl |-> "sty", Size |-> 2, NumBaseCycles |-> 4, NumPageCrossCycles |-> 0, GetAddressImpl |-> "ZeroPageX"],
  (* 95 *) [Name |-> "STA", Impl |-> "sta", Size |-> 2, NumBaseCycles |-> 4, NumPageCrossCycles |-> 0, GetAddressImpl |-> "ZeroPageX"],
  (* 96 *) [Name |-> "STX", Impl |-> "stx", Size |-> 2, NumBaseCycles |-> 4, NumPageCrossCycles |-> 0, GetAddressImpl |-> "ZeroPageY"],
  (* 97 *) [Name |-> "AAX", Impl |-> "aax", Size |-> 2, NumBaseCycles |-> 4, NumPageCrossCycles |-> 0, GetAddressImpl |-> "ZeroPageY"],
  (* 98 *) [Name |-> "TYA", Impl |-> "tya", Size |-> 1, NumBaseCycles |-> 2, NumPageCrossCycles |-> 0, GetAddressImpl |-> "Implied"],
  (* 99 *) [Name |-> "STA", Impl |-> "sta", Size |-> 3, NumBaseCycles |-> 5, NumPageCrossCycles |-> 0, GetAddressImpl |-> "AbsoluteY"],
  (* 9A *) [Name |-> "TXS", Impl |-> "txs", Size |-> 1, NumBaseCycles |-> 2, NumPageCrossCycles |-> 0, GetAddressImpl |-> "Implied"],
  (* 9B *) [Name |-> "x9B", Impl |-> "xxx", Size |-> 0, NumBaseCycles |-> 0, NumPageCrossCycles |-> 0, GetAddressImpl |-> "nil"],
  (* 9C *) [Name |-> "x9C", Impl |-> "xxx", Size |-> 0, NumBaseCycles |-> 0, NumPageCrossCycles |-> 0, GetAddressImpl |-> "nil"],
  (* 9D *) [Name |-> "STA", Impl |-> "sta", Size |-> 3, NumBaseCycles |-> 5, NumPageCrossCycles |-> 0, GetAddressImpl |-> "AbsoluteX"],
  (* 9E *) [Name |-> "x9E", Impl |-> "xxx", Size |-> 0, NumBaseCycles |-> 0, NumPageCrossCycles |-> 0, GetAddressImpl |-> "nil"],
  (* 9F *) [Name |-> "x9F", Impl |-> "xxx", Size |-> 0, NumBaseCycles |-> 0, NumPageCrossCycles |-> 0, GetAddressImpl |-> "nil"],
  (* A0 *) [Name |-> "LDY", Impl |-> "ldy", Size |-> 2, NumBaseCycles |-> 2, NumPageCrossCycles |-> 0, GetAddressImpl |-> "Immediate"],
  (* A1 *) [Name |-> "LDA", Impl |-> "lda", Size |-> 2, NumBaseCycles |-> 6, NumPageCrossCycles |-> 0, GetAddressImpl |-> "IndirectX"],
  (* A2 *) [Name |-> "LDX", Impl |-> "ldx", Size |-> 2, NumBaseCycles |-> 2, NumPageCrossCycles |-> 0, GetAddressImpl |-> "Immediate"],
  (* A3 *) [Name |-> "LAX", Impl |-> "lax", Size |-> 2, NumBaseCycles |-> 6, NumPageCrossCycles |-> 0, GetAddressImpl |-> "IndirectX"],
  (* A4 *) [Name |-> "LDY", Impl |-> "ldy", Size |-> 2, NumBaseCycles |-> 3, NumPageCrossCycles |-> 0, GetAddressImpl |-> "ZeroPage"],
  (* A5 *) [Name |-> "LDA", Impl |-> "lda", Size |-> 2, NumBaseCycles |-> 3, NumPageCrossCycles |-> 0, GetAddressImpl |-> "ZeroPage"],
  (* A6 *) [Name |-> "LDX", Impl |-> "ldx", Size |-> 2, NumBaseCycles |-> 3, NumPageCrossCycles |-> 0, GetAddressImpl |-> "ZeroPage"],
  (* A7 *) [Name |-> "LAX", Impl |-> "lax", Size |-> 2, NumBaseCycles |-> 3, NumPageCrossCycles |-> 0, GetAddressImpl |-> "ZeroPage"],
  (* A8 *) [Name |-> "TAY", Impl |-> "tay", Size |-> 1, NumBaseCycles |-> 2, NumPageCrossCycles |-> 0, GetAddressImpl |-> "Implied"],
  (* A9 *) [Name |-> "LDA", Impl |-> "lda", Size |-> 2, NumBaseCycles |-> 2, NumPageCrossCycles |-> 0, GetAddressImpl |-> "Immediate"],
  (* AA *) [Name |-> "TAX", Impl |-> "tax", Size |-> 1, NumBaseCycles |-> 2, NumPageCrossCycles |-> 0, GetAddressImpl |-> "Implied"],
  (* AB *) [Name |-> "LXA", Impl |-> "lxa", Size |-> 2, NumBaseCycles |-> 2, NumPageCrossCycles |-> 0, GetAddressImpl |-> "Immediate"],
  (* AC *) [Name |-> "LDY", Impl |-> "ldy", Size |-> 3, NumBaseCycles |-> 4, NumPageCrossCycles |-> 0, GetAddressImpl |-> "Absolute"],
  (* AD *) [Name |-> "LDA", Impl |-> "lda", Size |-> 3, NumBaseCycles |-> 4, NumPageCrossCycles |-> 0, GetAddressImpl |-> "Absolute"],
  (* AE *) [Name |-> "LDX", Impl |-> "ldx", Size |-> 3, NumBaseCycles |-> 4, NumPageCrossCycles |-> 0, GetAddressImpl |-> "Absolute"],
  (* AF *) [Name |-> "LAX", Impl |-> "lax", Size |-> 3, NumBaseCycles |-> 4, NumPageCrossCycles |-> 0, GetAddressImpl |-> "Absolute"],
  (* B0 *) [Name |-> "BCS", Impl |-> "bcs", Size |-> 2, NumBaseCycles |-> 2, NumPageCrossCycles |-> 0, GetAddressImpl |-> "Relative"],
  (* B1 *) [Name |-> "LDA", Impl |-> "lda", Size |-> 2, NumBaseCycles |-> 5, NumPageCrossCycles |-> 1, GetAddressImpl |-> "IndirectY"],
  (* B2 *) [Name |-> "xB2", Impl |-> "xxx", Size |-> 0, NumBaseCycles |-> 0, NumPageCrossCycles |-> 0, GetAddressImpl |-> "nil"],
  (* B3 *) [Name |-> "LAX", Impl |-> "lax", Size |-> 2, NumBaseCycles |-> 5, NumPageCrossCycles |-> 1, GetAddressImpl |-> "IndirectY"],
  (* B4 *) [Name |-> "LDY", Impl |-> "ldy", Size |-> 2, NumBaseCycles |-> 4, NumPageCrossCycles |-> 0, GetAddressImpl |-> "ZeroPageX"],
  (* B5 *) [Name |-> "LDA", Impl |-> "lda", Size |-> 2, NumBaseCycles |-> 4, NumPageCrossCycles |-> 0, GetAddressImpl |-> "ZeroPageX"],
  (* B6 *) [Name |-> "LDX", Impl |-> "ldx", Size |-> 2, NumBaseCycles |-> 4, NumPageCrossCycles |-> 0, GetAddressImpl |-> "ZeroPageY"],
  (* B7 *) [Name |-> "LAX", Impl |-> "lax", Size |-> 2, NumBaseCycles |-> 4, NumPageCrossCycles |-> 0, GetAddressImpl |-> "ZeroPageY"],
  (* B8 *) [Name |-> "CLV", Impl |-> "clv", Size |-> 1, NumBaseCycles |-> 2, NumPageCrossCycles |-> 0, GetAddressImpl |-> "Implied"],
  (* B9 *) [Name |-> "LDA", Impl |-> "lda", Size |-> 3, NumBaseCycles |-> 4, NumPageCrossCycles |-> 1, GetAddressImpl |-> "AbsoluteY"],
  (* BA *) [Name |-> "TSX", Impl |-> "tsx", Size |-> 1, NumBaseCycles |-> 2, NumPageCrossCycles |-> 0, GetAddressImpl |-> "Implied"],
  (* BB *) [Name |-> "xBB", Impl |-> "xxx", Size |-> 0, NumBaseCycles |-> 0, NumPageCrossCycles |-> 0, GetAddressImpl |-> "nil"],
  (* BC *) [Name |-> "LDY", Impl |-> "ldy", Size |-> 3, NumBaseCycles |-> 4, NumPageCrossCycles |-> 1, GetAddressImpl |-> "AbsoluteX"],
  (* BD *) [Name |-> "LDA", Impl |-> "lda", Size |-> 3, NumBaseCycles |-> 4, NumPageCrossCycles |-> 1, GetAddressImpl |-> "AbsoluteX"],
  (* BE *) [Name |-> "LDX", Impl |-> "ldx", Size |-> 3, NumBaseCycles |-> 4, NumPageCrossCycles |-> 1, GetAddressImpl |-> "AbsoluteY"],
  (* BF *) [Name |-> "LAX", Impl |-> "lax", Size |-> 3, NumBaseCycles |-> 4, NumPageCrossCycles |-> 1, GetAddressImpl |-> "AbsoluteY"],
  (* C0 *) [Name |-> "CPY", Impl |-> "cpy", Size |-> 2, NumBaseCycles |-> 2, NumPageCrossCycles |-> 0, GetAddressImpl |-> "Immediate"],
  (* C1 *) [Name |-> "CMP", Impl |-> "cmp", Size |-> 2, NumBaseCycles |-> 6, NumPageCrossCycles |-> 0, GetAddressImpl |-> "IndirectX"],
  (* C2 *) [Name |-> "DOP", Impl |-> "dop", Size |-> 2, NumBaseCycles |-> 2, NumPageCrossCycles |-> 0, GetAddressImpl |-> "Immediate"],
  (* C3 *) [Name |-> "DCP", Impl |-> "dcp", Size |-> 2, NumBaseCycles |-> 8, NumPageCrossCycles |-> 0, GetAddressImpl |-> "IndirectX"],
  (* C4 *) [Name |-> "CPY", Impl |-> "cpy", Size |-> 2, NumBaseCycles |-> 3, NumPageCrossCycles |-> 0, GetAddressImpl |-> "ZeroPage"],
  (* C5 *) [Name |-> "CMP", Impl |-> "cmp", Size |-> 2, NumBaseCycles |-> 3, NumPageCrossCycles |-> 0, GetAddressImpl |-> "ZeroPage"],
  (* C6 *) [Name |-> "DEC", Impl |-> "dec", Size |-> 2, NumBaseCycles |-> 5, NumPageCrossCycles |-> 0, GetAddressImpl |-> "ZeroPage"],
  (* C7 *) [Name |-> "DCP", Impl |-> "dcp", Size |-> 2, NumBaseCycles |-> 5, NumPageCrossCycles |-> 0, GetAddressImpl |-> "ZeroPage"],
  (* C8 *) [Name |-> "INY", Impl |-> "iny", Size |-> 1, NumBaseCycles |-> 2, NumPageCrossCycles |-> 0, GetAddressImpl |-> "Implied"],
  (* C9 *) [Name |-> "CMP", Impl |-> "cmp", Size |-> 2, NumBaseCycles |-> 2, NumPageCrossCycles |-> 0, GetAddressImpl |-> "Immediate"],
  (* CA *) [Name |-> "DEX", Impl |-> "dex", Size |-> 1, NumBaseCycles |-> 2, NumPageCrossCycles |-> 0, GetAddressImpl |-> "Implied"],
  (* CB *) [Name |-> "SAX", Impl |-> "sax", Size |-> 2, NumBaseCycles |-> 2, NumPageCrossCycles |-> 0, GetAddressImpl |-> "Immediate"],
  (* CC *) [Name |-> "CPY", Impl |-> "cpy", Size |-> 3, NumBaseCycles |-> 4, NumPageCrossCycles |-> 0, GetAddressImpl |-> "Absolute"],
  (* CD *) [Name |-> "CMP", Impl |-> "cmp", Size |-> 3, NumBaseCycles |-> 4, NumPageCrossCycles |-> 0, GetAddressImpl |-> "Absolute"],
  (* CE *) [Name |-> "DEC", Impl |-> "dec", Size |-> 3, NumBaseCycles |-> 6, NumPageCrossCycles |-> 0, GetAddressImpl |-> "Absolute"],
  (* CF *) [Name |-> "DCP", Impl |-> "dcp", Size |-> 3, NumBaseCycles |-> 6, NumPageCrossCycles |-> 0, GetAddressImpl |-> "Absolute"],
  (* D0 *) [Name |-> "BNE", Impl |-> "bne", Size |-> 2, NumBaseCycles |-> 2, NumPageCrossCycles |-> 0, GetAddressImpl |-> "Relative"],
  (* D1 *) [Name |-> "CMP", Impl |-> "cmp", Size |-> 2, NumBaseCycles |-> 5, NumPageCrossCycles |-> 1, GetAddressImpl |-> "IndirectY"],
  (* D2 *) [Name |-> "xD2", Impl |-> "xxx", Size |-> 0, NumBaseCycles |-> 0, NumPageCrossCycles |-> 0, GetAddressImpl |-> "nil"],
  (* D3 *) [Name |-> "DCP", Impl |-> "dcp", Size |-> 2, NumBaseCycles |-> 8, NumPageCrossCycles |-> 0, GetAddressImpl |-> "IndirectY"],
  (* D4 *) [Name |-> "DOP", Impl |-> "dop", Size |-> 2, NumBaseCycles |-> 4, NumPageCrossCycles |-> 0, GetAddressImpl |-> "ZeroPageX"],
  (* D5 *) [Name |-> "CMP", Impl |-> "cmp", Size |-> 2, NumBaseCycles |-> 4, NumPageCrossCycles |-> 0, GetAddressImpl |-> "ZeroPageX"],
  (* D6 *) [Name |-> "DEC", Impl |-> "dec", Size |-> 2, NumBaseCycles |-> 6, NumPageCrossCycles |-> 0, GetAddressImpl |-> "ZeroPageX"],
  (* D7 *) [Name |-> "DCP", Impl |-> "dcp", Size |-> 2, NumBaseCycles |-> 6, NumPageCrossCycles |-> 0, GetAddressImpl |-> "ZeroPageX"],
  (* D8 *) [Name |-> "CLD", Impl |-> "cld", Size |-> 1, NumBaseCycles |-> 2, NumPageCrossCycles |-> 0, GetAddressImpl |-> "Implied"],
  (* D9 *) [Name |-> "CMP", Impl |-> "cmp", Size |-> 3, NumBaseCycles |-> 4, NumPageCrossCycles |-> 1, GetAddressImpl |-> "AbsoluteY"],
  (* DA *) [Name |-> "NOP", Impl |-> "nop", Size |-> 1, NumBaseCycles |-> 2, NumPageCrossCycles |-> 0, GetAddressImpl |-> "Implied"],
  (* DB *) [Name |-> "DCP", Impl |-> "dcp", Size |-> 3, NumBaseCycles |-> 7, NumPageCrossCycles |-> 0, GetAddressImpl |-> "AbsoluteY"],
  (* DC *) [Name |-> "TOP", Impl |-> "top", Size |-> 3, NumBaseCycles |-> 4, NumPageCrossCycles |-> 1, GetAddressImpl |-> "AbsoluteX"],
  (* DD *) [Name |-> "CMP", Impl |-> "cmp", Size |-> 3, NumBaseCycles |-> 4, NumPageCrossCycles |-> 1, GetAddressImpl |-> "AbsoluteX"],
  (* DE *) [Name |-> "DEC", Impl |-> "dec", Size |-> 3, NumBaseCycles |-> 7, NumPageCrossCycles |-> 0, GetAddressImpl |-> "AbsoluteX"],
  (* DF *) [Name |-> "DCP", Impl |-> "dcp", Size |-> 3, NumBaseCycles |-> 7, NumPageCrossCycles |-> 0, GetAddressImpl |-> "AbsoluteX"],
  (* E0 *) [Name |-> "CPX", Impl |-> "cpx", Size |-> 2, NumBaseCycles |-> 2, NumPageCrossCycles |-> 0, GetAddressImpl |-> "Immediate"],
  (* E1 *) [Name |-> "SBC", Impl |-> "sbc", Size |-> 2, NumBaseCycles |-> 6, NumPageCrossCycles |-> 0, GetAddressImpl |-> "IndirectX"],
  (* E2 *) [Name |-> "DOP", Impl |-> "dop", Size |-> 2, NumBaseCycles |-> 2, NumPageCrossCycles |-> 0, GetAddressImpl |-> "Immediate"],
  (* E3 *) [Name |-> "ISC", Impl |-> "isc", Size |-> 2, NumBaseCycles |-> 8, NumPageCrossCycles |-> 0, GetAddressImpl |-> "IndirectX"],
  (* E4 *) [Name |-> "CPX", Impl |-> "cpx", Size |-> 2, NumBaseCycles |-> 3, NumPageCrossCycles |-> 0, GetAddressImpl |-> "ZeroPage"],
  (* E5 *) [Name |-> "SBC", Impl |-> "sbc", Size |-> 2, NumBaseCycles |-> 3, NumPageCrossCycles |-> 0, GetAddressImpl |-> "ZeroPage"],
  (* E6 *) [Name |-> "INC", Impl |-> "inc", Size |-> 2, NumBaseCycles |-> 5, NumPageCrossCycles |-> 0, GetAddressImpl |-> "ZeroPage"],
  (* E7 *) [Name |-> "ISC", Impl |-> "isc", Size |-> 2, NumBaseCycles |-> 5, NumPageCrossCycles |-> 0, GetAddressImpl |-> "ZeroPage"],
  (* E8 *) [Name |-> "INX", Impl |-> "inx", Size |-> 1, NumBaseCycles |-> 2, NumPageCrossCycles |-> 0, GetAddressImpl |-> "Implied"],
  (* E9 *) [Name |-> "SBC", Impl |-> "sbc", Size |-> 2, NumBaseCycles |-> 2, NumPageCrossCycles |-> 0, GetAddressImpl |-> "Immediate"],
  (* EA *) [Name |-> "NOP", Impl |-> "nop", Size |-> 1, NumBaseCycles |-> 2, NumPageCrossCycles |-> 0, GetAddressImpl |-> "Implied"],
  (* EB *) [Name |-> "SBC", Impl |-> "sbc", Size |-> 2, NumBaseCycles |-> 2, NumPageCrossCycles |-> 0, GetAddressImpl |-> "Immediate"],
  (* EC *) [Name |-> "CPX", Impl |-> "cpx", Size |-> 3, NumBaseCycles |-> 4, NumPageCrossCycles |-> 0, GetAddressImpl |-> "Absolute"],
  (* ED *) [Name |-> "SBC", Impl |-> "sbc", Size |-> 3, NumBaseCycles |-> 4, NumPageCrossCycles |-> 0, GetAddressImpl |-> "Absolute"],
  (* EE *) [Name |-> "INC", Impl |-> "inc", Size |-> 3, NumBaseCycles |-> 6, NumPageCrossCycles |-> 0, GetAddressImpl |-> "Absolute"],
  (* EF *) [Name |-> "ISC", Impl |-> "isc", Size |-> 3, NumBaseCycles |-> 6, NumPageCrossCycles |-> 0, GetAddressImpl |-> "Absolute"],
  (* F0 *) [Name |-> "BEQ", Impl |-> "beq", Size |-> 2, NumBaseCycles |-> 2, NumPageCrossCycles |-> 0, GetAddressImpl |-> "Relative"],
  (* F1 *) [Name |-> "SBC", Impl |-> "sbc", Size |-> 2, NumBaseCycles |-> 5, NumPageCrossCycles |-> 1, GetAddressImpl |-> "IndirectY"],
  (* F2 *) [Name |-> "xF2", Impl |-> "xxx", Size |-> 0, NumBaseCycles |-> 0, NumPageCrossCycles |-> 0, GetAddressImpl |-> "nil"],
  (* F3 *) [Name |-> "ISC", Impl |-> "isc", Size |-> 2, NumBaseCycles |-> 8, NumPageCrossCycles |-> 0, GetAddressImpl |-> "IndirectY"],
  (* F4 *) [Name |-> "DOP", Impl |-> "dop", Size |-> 2, NumBaseCycles |-> 4, NumPageCrossCycles |-> 0, GetAddressImpl |-> "ZeroPageX"],
  (* F5 *) [Name |-> "SBC", Impl |-> "sbc", Size |-> 2, NumBaseCycles |-> 4, NumPageCrossCycles |-> 0, GetAddressImpl |-> "ZeroPageX"],
  (* F6 *) [Name |-> "INC", Impl |-> "inc", Size |-> 2, NumBaseCycles |-> 6, NumPageCrossCycles |-> 0, GetAddressImpl |-> "ZeroPageX"],
  (* F7 *) [Name |-> "ISC", Impl |-> "isc", Size |-> 2, NumBaseCycles |-> 6, NumPageCrossCycles |-> 0, GetAddressImpl |-> "ZeroPageX"],
  (* F8 *) [Name |-> "SED", Impl |-> "sed", Size |-> 1, NumBaseCycles |-> 2, NumPageCrossCycles |-> 0, GetAddressImpl |-> "Implied"],
  (* F9 *) [Name |-> "SBC", Impl |-> "sbc", Size |-> 3, NumBaseCycles |-> 4, NumPageCrossCycles |-> 1, GetAddressImpl |-> "AbsoluteY"],
  (* FA *) [Name |-> "NOP", Impl |-> "nop", Size |-> 1, NumBaseCycles |-> 2, NumPageCrossCycles |-> 0, GetAddressImpl |-> "Implied"],
  (* FB *) [Name |-> "ISC", Impl |-> "isc", Size |-> 3, NumBaseCycles |-> 7, NumPageCrossCycles |-> 0, GetAddressImpl |-> "AbsoluteY"],
  (* FC *) [Name |-> "TOP", Impl |-> "top", Size |-> 3, NumBaseCycles |-> 4, NumPageCrossCycles |-> 1, GetAddressImpl |-> "AbsoluteX"],
  (* FD *) [Name |-> "SBC", Impl |-> "sbc", Size |-> 3, NumBaseCycles |-> 4, NumPageCrossCycles |-> 1, GetAddressImpl |-> "AbsoluteX"],
  (* FE *) [Name |-> "INC", Impl |-> "inc", Size |-> 3, NumBaseCycles |-> 7, NumPageCrossCycles |-> 0, GetAddressImpl |-> "AbsoluteX"],
  (* FF *) [Name |-> "ISC", Impl |-> "isc", Size |-> 3, NumBaseCycles |-> 7, NumPageCrossCycles |-> 0, GetAddressImpl |-> "AbsoluteX"]
  >>

\* instruction.Impl(value)
Impl(name, w, address) ==
  CASE name = "aax" -> write(w, address, BitAnd(w.cpu.A, w.cpu.X))
    [] name = "adc" -> adc(w, address)
    [] name = "alr" ->
         Bind(and(w, address), LAMBDA a :
         Bind(lsra(a.w, address), LAMBDA b :
           [w |-> b.w, cycles |-> a.cycles + b.cycles]))
    [] name = "anc" ->
         Bind(and(w, address), LAMBDA a :
           [w |-> [a.w EXCEPT !.cpu.flagCarry = a.w.cpu.flagSign], cycles |-> a.cycles])
    [] name = "and" -> and(w, address)
    [] name = "arr" ->
         Bind(read(w, address), LAMBDA r :
           LET a == (BitAnd(r.w.cpu.A, r.result) \div 2)
                    + (IF r.w.cpu.flagCarry THEN 128 ELSE 0)
               w2 == setZN([r.w EXCEPT !.cpu.A = a], a)
           IN [w |-> [w2 EXCEPT !.cpu.flagCarry = Bit(a, 6) # 0,
                                !.cpu.flagOverflow = Bit(a, 6) # Bit(a, 5)],
               cycles |-> 0])
    [] name = "asl" -> asl(w, address)
    [] name = "asla" -> asla(w, address)
    [] name = "bcc" ->
         IF ~w.cpu.flagCarry THEN doBranch(w, address) ELSE [w |-> w, cycles |-> 0]
    [] name = "bcs" ->
         IF w.cpu.flagCarry THEN doBranch(w, address) ELSE [w |-> w, cycles |-> 0]
    [] name = "beq" ->
         IF w.cpu.flagZero THEN doBranch(w, address) ELSE [w |-> w, cycles |-> 0]
    [] name = "bit" -> bit(w, address)
    [] name = "bmi" ->
         IF w.cpu.flagSign THEN doBranch(w, address) ELSE [w |-> w, cycles |-> 0]
    [] name = "bne" ->
         IF ~w.cpu.flagZero THEN doBranch(w, address) ELSE [w |-> w, cycles |-> 0]
    [] name = "bpl" ->
         IF ~w.cpu.flagSign THEN doBranch(w, address) ELSE [w |-> w, cycles |-> 0]
    [] name = "brk" -> brk(w, address)
    [] name = "bvc" ->
         IF ~w.cpu.flagOverflow THEN doBranch(w, address) ELSE [w |-> w, cycles |-> 0]
    [] name = "bvs" ->
         IF w.cpu.flagOverflow THEN doBranch(w, address) ELSE [w |-> w, cycles |-> 0]
    [] name = "clc" -> [w |-> [w EXCEPT !.cpu.flagCarry = FALSE], cycles |-> 0]
    [] name = "cld" -> [w |-> [w EXCEPT !.cpu.flagDecimalMode = FALSE], cycles |-> 0]
    [] name = "cli" -> [w |-> [w EXCEPT !.cpu.flagInterruptDisable = FALSE], cycles |-> 0]
    [] name = "clv" -> [w |-> [w EXCEPT !.cpu.flagOverflow = FALSE], cycles |-> 0]
    [] name = "cmp" -> cmp(w, address)
    [] name = "cpx" -> cpx(w, address)
    [] name = "cpy" -> cpy(w, address)
    [] name = "dcp" ->
         Bind(dec(w, address), LAMBDA a :
         Bind(cmp(a.w, address), LAMBDA b :
           [w |-> b.w, cycles |-> a.cycles + b.cycles]))
    [] name = "dec" -> dec(w, address)
    [] name = "dex" ->
         (LET value == Byte(w.cpu.X + 255)
          IN [w |-> setZN([w EXCEPT !.cpu.X = value], value), cycles |-> 0])
    [] name = "dey" ->
         (LET value == Byte(w.cpu.Y + 255)
          IN [w |-> setZN([w EXCEPT !.cpu.Y = value], value), cycles |-> 0])
    [] name = "dop" -> [w |-> w, cycles |-> 0]
    [] name = "eor" -> eor(w, address)
    [] name = "inc" -> inc(w, address)
    [] name = "inx" ->
         (LET value == Byte(w.cpu.X + 1)
          IN [w |-> setZN([w EXCEPT !.cpu.X = value], value), cycles |-> 0])
    [] name = "iny" ->
         (LET value == Byte(w.cpu.Y + 1)
          IN [w |-> setZN([w EXCEPT !.cpu.Y = value], value), cycles |-> 0])
    [] name = "isc" ->
         Bind(inc(w, address), LAMBDA a :
         Bind(sbc(a.w, address), LAMBDA b :
           [w |-> b.w, cycles |-> a.cycles + b.cycles]))
    [] name = "jmp" -> jmp(w, address)
    [] name = "jsr" -> jsr(w, address)
    [] name = "lax" ->
         Bind(read(w, address), LAMBDA r :
           [w |-> setZN([r.w EXCEPT !.cpu.A = r.result, !.cpu.X = r.result], r.result),
            cycles |-> 0])
    [] name = "lda" ->
         Bind(read(w, address), LAMBDA r :
           [w |-> setZN([r.w EXCEPT !.cpu.A = r.result], r.result), cycles |-> 0])
    [] name = "ldx" ->
         Bind(read(w, address), LAMBDA r :
           [w |-> setZN([r.w EXCEPT !.cpu.X = r.result], r.result), cycles |-> 0])
    [] name = "ldy" ->
         Bind(read(w, address), LAMBDA r :
           [w |-> setZN([r.w EXCEPT !.cpu.Y = r.result], r.result), cycles |-> 0])
    [] name = "lsr" -> lsr(w, address)
    [] name = "lsra" -> lsra(w, address)
    [] name = "lxa" ->
         Bind(read(w, address), LAMBDA r :
           [w |-> setZN([r.w EXCEPT !.cpu.A = r.result, !.cpu.X = r.result], r.result),
            cycles |-> 0])
    [] name = "nop" -> [w |-> w, cycles |-> 0]
    [] name = "ora" -> ora(w, address)
    [] name = "pha" -> pha(w, address)
    [] name = "php" -> php(w, address)
    [] name = "pla" -> pla(w, address)
    [] name = "plp" -> plp(w, address)
    [] name = "rla" ->
         Bind(rol(w, address), LAMBDA a :
         Bind(and(a.w, address), LAMBDA b :
           [w |-> b.w, cycles |-> a.cycles + b.cycles]))
    [] name = "rol" -> rol(w, address)
    [] name = "rola" -> rola(w, address)
    [] name = "ror" -> ror(w, address)
    [] name = "rora" -> rora(w, address)
    [] name = "rra" ->
         Bind(ror(w, address), LAMBDA a :
         Bind(adc(a.w, address), LAMBDA b :
           [w |-> b.w, cycles |-> a.cycles + b.cycles]))
    [] name = "rti" -> rti(w, address)
    [] name = "rts" -> rts(w, address)
    [] name = "sax" ->
         Bind(read(w, address), LAMBDA r :
           LET d == BitAnd(r.w.cpu.A, r.w.cpu.X)
               x == Byte(d - r.result + 256)
           IN [w |-> setZN([r.w EXCEPT !.cpu.flagCarry = d - r.result >= 0, !.cpu.X = x], x),
               cycles |-> 0])
    [] name = "sbc" -> sbc(w, address)
    [] name = "sec" -> [w |-> [w EXCEPT !.cpu.flagCarry = TRUE], cycles |-> 0]
    [] name = "sed" -> [w |-> [w EXCEPT !.cpu.flagDecimalMode = TRUE], cycles |-> 0]
    [] name = "sei" -> [w |-> [w EXCEPT !.cpu.flagInterruptDisable = TRUE], cycles |-> 0]
    [] name = "slo" ->
         Bind(asl(w, address), LAMBDA a :
         Bind(ora(a.w, address), LAMBDA b :
           [w |-> b.w, cycles |-> a.cycles + b.cycles]))
    [] name = "sre" ->
         Bind(lsr(w, address), LAMBDA a :
         Bind(eor(a.w, address), LAMBDA b :
           [w |-> b.w, cycles |-> a.cycles + b.cycles]))
    [] name = "sta" -> write(w, address, w.cpu.A)
    [] name = "stx" -> write(w, address, w.cpu.X)
    [] name = "sty" -> write(w, address, w.cpu.Y)
    [] name = "tax" -> [w |-> setZN([w EXCEPT !.cpu.X = w.cpu.A], w.cpu.A), cycles |-> 0]
    [] name = "tay" -> [w |-> setZN([w EXCEPT !.cpu.Y = w.cpu.A], w.cpu.A), cycles |-> 0]
    [] name = "top" -> [w |-> w, cycles |-> 0]
    [] name = "tsx" ->
         [w |-> setZN([w EXCEPT !.cpu.X = w.cpu.SP], w.cpu.SP), cycles |-> 0]
    [] name = "txa" -> [w |-> setZN([w EXCEPT !.cpu.A = w.cpu.X], w.cpu.X), cycles |-> 0]
    [] name = "txs" -> txs(w, address)
    [] name = "tya" -> [w |-> setZN([w EXCEPT !.cpu.A = w.cpu.Y], w.cpu.Y), cycles |-> 0]
    [] name = "xxx" -> [w |-> w, cycles |-> 0]

\* instruction.GetAddressImpl()
GetAddressImpl(name, w) ==
  CASE name = "Absolute" -> getAddrAbsolute(w)
    [] name = "AbsoluteX" -> getAddrAbsoluteX(w)
    [] name = "AbsoluteY" -> getAddrAbsoluteY(w)
    [] name = "Accumulator" -> getAddrAccumulator(w)
    [] name = "Immediate" -> getAddrImmediate(w)
    [] name = "Implied" -> getAddrImplied(w)
    [] name = "Indirect" -> getAddrIndirect(w)
    [] name = "IndirectX" -> getAddrIndirectX(w)
    [] name = "IndirectY" -> getAddrIndirectY(w)
    [] name = "Relative" -> getAddrRelative(w)
    [] name = "ZeroPage" -> getAddrZeroPage(w)
    [] name = "ZeroPageX" -> getAddrZeroPageX(w)
    [] name = "ZeroPageY" -> getAddrZeroPageY(w)
    [] OTHER -> [w |-> w, value |-> 0, pageCrossed |-> FALSE]

StepChargingFailedFetch(w) ==
  Bind(IF ~w.cpu.flagInterruptDisable THEN CartIRQ(w)
       ELSE [w |-> w, isIRQ |-> FALSE], LAMBDA poll :
  Bind(IF poll.isIRQ THEN interrupt(poll.w)
       ELSE [w |-> poll.w, cycles |-> 0], LAMBDA i :
  Bind(read(i.w, i.w.cpu.PC), LAMBDA f :
  Bind(instructions[f.result + 1], LAMBDA instruction :
    IF f.w.exit # 0 THEN [w |-> f.w, result |-> 0, err |-> FALSE]
    ELSE IF instruction.Size = 0
    THEN [w |-> [f.w EXCEPT !.cpu.NumCycles = @ + i.cycles + 1],
          result |-> 0, err |-> TRUE]
    ELSE
      Bind(GetAddressImpl(instruction.GetAddressImpl, f.w), LAMBDA g :
      Bind(Impl(instruction.Impl,
                [g.w EXCEPT !.cpu.PC = Word(@ + instruction.Size)], g.value), LAMBDA x :
        LET numCycles == i.cycles + instruction.NumBaseCycles
                         + (IF g.pageCrossed THEN instruction.NumPageCrossCycles ELSE 0)
            total == x.w.cpu.NumCycles + numCycles + x.cycles
        IN IF x.w.exit # 0 THEN [w |-> x.w, result |-> 0, err |-> FALSE]
           ELSE [w |-> [x.w EXCEPT !.cpu.NumCycles = total],
                 result |-> total, err |-> FALSE]))))))

\* CPU.Step: the world after the call, the cycle total returned and
\* whether an error was returned.  A read or write that ends the process
\* ends the call with it: the world has exit set and nothing is returned
Step(w) ==
  Bind(IF ~w.cpu.flagInterruptDisable THEN CartIRQ(w)
       ELSE [w |-> w, isIRQ |-> FALSE], LAMBDA poll :
  Bind(IF poll.isIRQ THEN interrupt(poll.w)
       ELSE [w |-> poll.w, cycles |-> 0], LAMBDA i :
  Bind(read(i.w, i.w.cpu.PC), LAMBDA f :
  Bind(instructions[f.result + 1], LAMBDA instruction :
    IF f.w.exit # 0 THEN [w |-> f.w, result |-> 0, err |-> FALSE]
    ELSE IF instruction.Size = 0
    THEN [w |-> f.w, result |-> 0, err |-> TRUE]
    ELSE
      Bind(GetAddressImpl(instruction.GetAddressImpl, f.w), LAMBDA g :
      Bind(Impl(instruction.Impl,
                [g.w EXCEPT !.cpu.PC = Word(@ + instruction.Size)], g.value), LAMBDA x :
        LET numCycles == i.cycles + instruction.NumBaseCycles
                         + (IF g.pageCrossed THEN instruction.NumPageCrossCycles ELSE 0)
            total == x.w.cpu.NumCycles + numCycles + x.cycles
        IN IF x.w.exit # 0 THEN [w |-> x.w, result |-> 0, err |-> FALSE]
           ELSE [w |-> [x.w EXCEPT !.cpu.NumCycles = total],
                 result |-> total, err |-> FALSE]))))))

\* CPU.NextInstructionBytes: the world after the call, the bytes returned
\* and whether an error was returned.  The loop runs instruction.Size times,
\* at most three.
NextInstructionBytes(w) ==
  Bind(read(w, w.cpu.PC), LAMBDA f :
  Bind(instructions[f.result + 1].Size, LAMBDA size :
    IF size = 0
    THEN [w |-> f.w, bytes |-> <<>>, err |-> TRUE]
    ELSE
      Bind(read(f.w, w.cpu.PC), LAMBDA b0 :
        IF size = 1
        THEN [w |-> b0.w, bytes |-> <<b0.result>>, err |-> FALSE]
        ELSE
          Bind(read(b0.w, Word(w.cpu.PC + 1)), LAMBDA b1 :
            IF size = 2
            THEN [w |-> b1.w, bytes |-> <<b0.result, b1.result>>, err |-> FALSE]
            ELSE
              Bind(read(b1.w, Word(w.cpu.PC + 2)), LAMBDA b2 :
                [w |-> b2.w, bytes |-> <<b0.result, b1.result, b2.result>>,
                 err |-> FALSE])))))

\* NewCPU, given the world it is built in (its reads go to the cartridge)
NewCPU(w) ==
  LET c == [RAM |-> EmptyMem, NumCycles |-> 0, PC |-> 0, SP |-> 253,
            A |-> 0, X |-> 0, Y |-> 0,
            flagCarry |-> FALSE, flagZero |-> FALSE,
            flagInterruptDisable |-> TRUE, flagDecimalMode |-> FALSE,
            flagBreak |-> FALSE, flagOverflow |-> FALSE, flagSign |-> FALSE]
  IN [c EXCEPT !.PC = read16([w EXCEPT !.cpu = c], ResetVector).result]

-----------------------------------------------------------------------------
(* PPU.Step and Console.Step.  A pixel of bgPixels and fgPixels is the   *)
(* index of the palette entry it points to, -1 for nil; fgPixels holds    *)
(* the slots that are not nil, fgPixelIsSprite0 and fgPixelIsInFront the  *)
(* slots that are true.  The picture img is only ever written by          *)
(* drawPixel and handed out by Step; its pixels are left out.             *)

\* PPU.pixelStrip: for each of the 8 pixels the palette entry it points to,
\* -1 for nil; exit is not 0 when a pattern read ended the process
pixelStrip(w, patternIndex, attributeBits, isForeground, yOffset) ==
  LET p == w.ppu
      large == isForeground /\ p.flagLargeSprites
      baseAddress == IF isForeground
                     THEN IF p.flagLargeSprites
                          THEN IF patternIndex % 2 = 0 THEN 0 ELSE 4096
                          ELSE p.spriteTableAddress
                     ELSE p.backgroundTableAddress
      index2 == IF large
                THEN IF yOffset > 7 THEN patternIndex - (patternIndex % 2) + 1
                     ELSE patternIndex - (patternIndex % 2)
                ELSE patternIndex
      yo == IF large /\ yOffset > 7 THEN yOffset - 8 ELSE yOffset
      basePaletteAddress == IF isForeground THEN 16144 ELSE 16128
      showPixels == IF isForeground THEN p.flagShowSprites ELSE p.flagShowBackground
  IN Bind(ppuRead(w, Word(baseAddress + index2 * 16 + yo)), LAMBDA low :
     Bind(ppuRead(w, Word(baseAddress + index2 * 16 + yo + 8)), LAMBDA high :
       [exit |-> IF low < 0 THEN low ELSE IF high < 0 THEN high ELSE 0,
        result |->
          [i \in 0..7 |->
             LET index == 2 * Bit(high, 7 - i) + Bit(low, 7 - i)
             IN IF index = 0 \/ ~showPixels \/ low < 0 \/ high < 0 THEN -1
                ELSE ppuRead(w, Word(basePaletteAddress + attributeBits * 4 + index)) % 64]]))

\* a sprite loop that keeps nine entries of a line and stops at the tenth
RECURSIVE spriteWalkKeepingNine(_, _, _, _)
spriteWalkKeepingNine(w, i, numSprites, acc) ==
  IF i >= 64 THEN acc
  ELSE
    LET p == w.ppu
        spriteHeight == IF p.flagLargeSprites THEN 16 ELSE 8
        y == Rd(p.sprRAM, 4 * i) + 1
        x == Rd(p.sprRAM, 4 * i + 3)
    IN IF y >= 240 \/ p.Scanline + 1 < y \/ p.Scanline + 1 >= y + spriteHeight
       THEN spriteWalkKeepingNine(w, i + 1, numSprites, acc)
       ELSE IF numSprites + 1 > 9
       THEN [acc EXCEPT !.max = TRUE]
       ELSE
         LET attributes == Rd(p.sprRAM, 4 * i + 2)
             flipH == Bit(attributes, 6) = 1
             flipV == Bit(attributes, 7) = 1
             inFront == Bit(attributes, 5) = 0
             yOffset == IF flipV THEN spriteHeight - 1 - (p.Scanline + 1 - y)
                        ELSE p.Scanline + 1 - y
         IN Bind(pixelStrip(w, Rd(p.sprRAM, 4 * i + 1), attributes % 4, TRUE, yOffset),
                 LAMBDA strip :
              LET painted == {x + k : k \in {k \in 0..7 :
                                 /\ x + k <= 255
                                 /\ x + k \notin DOMAIN acc.fg
                                 /\ strip.result[IF flipH THEN 7 - k ELSE k] # -1}}
                  fg == [pos \in DOMAIN acc.fg \cup painted |->
                           IF pos \in DOMAIN acc.fg THEN acc.fg[pos]
                           ELSE [colour |-> strip.result[IF flipH THEN 7 - (pos - x)
                                                         ELSE pos - x],
                                 isSprite0 |-> i = 0,
                                 isInFront |-> inFront,
                                 from |-> i]]
              IN IF strip.exit # 0 THEN [acc EXCEPT !.exit = strip.exit]
                 ELSE spriteWalkKeepingNine(w, i + 1, numSprites + 1, [acc EXCEPT !.fg = fg]))

\* the loop of loadSprites from entry i on: fg is the line buffer so far,
\* with the entry that painted each slot in from, max is
\* flagScanlineSpritesMax, exit is not 0 when a pattern read ended the
\* process
RECURSIVE spriteWalk(_, _, _, _)
spriteWalk(w, i, numSprites, acc) ==
  IF i >= 64 THEN acc
  ELSE
    LET p == w.ppu
        spriteHeight == IF p.flagLargeSprites THEN 16 ELSE 8
        y == Rd(p.sprRAM, 4 * i) + 1
        x == Rd(p.sprRAM, 4 * i + 3)
    IN IF y >= 240 \/ p.Scanline + 1 < y \/ p.Scanline + 1 >= y + spriteHeight
       THEN spriteWalk(w, i + 1, numSprites, acc)
       ELSE IF numSprites + 1 > 8
       THEN [acc EXCEPT !.max = TRUE]
       ELSE
         LET attributes == Rd(p.sprRAM, 4 * i + 2)
             flipH == Bit(attributes, 6) = 1
             flipV == Bit(attributes, 7) = 1
             inFront == Bit(attributes, 5) = 0
             yOffset == IF flipV THEN spriteHeight - 1 - (p.Scanline + 1 - y)
                        ELSE p.Scanline + 1 - y
         IN Bind(pixelStrip(w, Rd(p.sprRAM, 4 * i + 1), attributes % 4, TRUE, yOffset),
                 LAMBDA strip :
              LET painted == {x + k : k \in {k \in 0..7 :
                                 /\ x + k <= 255
                                 /\ x + k \notin DOMAIN acc.fg
                                 /\ strip.result[IF flipH THEN 7 - k ELSE k] # -1}}
                  fg == [pos \in DOMAIN acc.fg \cup painted |->
                           IF pos \in DOMAIN acc.fg THEN acc.fg[pos]
                           ELSE [colour |-> strip.result[IF flipH THEN 7 - (pos - x)
                                                         ELSE pos - x],
                                 isSprite0 |-> i = 0,
                                 isInFront |-> inFront,
                                 from |-> i]]
              IN IF strip.exit # 0 THEN [acc EXCEPT !.exit = strip.exit]
                 ELSE spriteWalk(w, i + 1, numSprites + 1, [acc EXCEPT !.fg = fg]))

\* the line PPU.loadSprites builds: the slots that are not nil
loadSpritesLine(w) ==
  LET cleared == [fg |-> EmptyMem, max |-> w.ppu.flagScanlineSpritesMax, exit |-> 0]
  IN IF ~w.ppu.flagShowSprites \/ w.ppu.Scanline = 0 THEN cleared
     ELSE spriteWalk(w, 0, 0, cleared)

\* PPU.loadSprites
loadSprites(w) ==
  Bind(loadSpritesLine(w), LAMBDA line :
    IF line.exit # 0 THEN Exited(w, line.exit)
    ELSE [w EXCEPT !.ppu.fgPixels = [pos \in DOMAIN line.fg |-> line.fg[pos].colour],
                   !.ppu.fgPixelIsSprite0 = {pos \in DOMAIN line.fg : line.fg[pos].isSprite0},
                   !.ppu.fgPixelIsInFront = {pos \in DOMAIN line.fg : line.fg[pos].isInFront},
                   !.ppu.flagScanlineSpritesMax = line.max])

\* PPU.loadTile
loadTile(w) ==
  LET v == w.ppu.v
      attributeAddress == 9152 + ((v \div 1024) % 4) * 1024 + ((v \div 128) % 8) * 8
                          + ((v \div 4) % 8)
      shift == 2 * Bit(v, 1) + 4 * Bit(v, 6)
  IN Bind(ppuReadCall(w, attributeAddress), LAMBDA at :
     Bind(ppuReadCall(at.w, 8192 + (v % 4096)), LAMBDA pi :
     Bind(pixelStrip(pi.w, pi.result, (at.result \div (2 ^ shift)) % 4, FALSE,
                     (v \div 4096) % 8), LAMBDA newPixels :
       IF pi.w.exit # 0 THEN pi.w
       ELSE IF newPixels.exit # 0 THEN Exited(pi.w, newPixels.exit)
       ELSE [pi.w EXCEPT !.ppu.bgPixels =
               [j \in 0..15 |-> IF j >= 8 THEN newPixels.result[j - 8] ELSE @[j]]])))

\* PPU.drawPixel, without the picture it paints
drawPixel(w) ==
  LET p == w.ppu
      bgPixel == p.bgPixels[p.x]
      moved == [j \in 0..15 |-> IF j >= p.x /\ j < 15 THEN p.bgPixels[j + 1]
                                ELSE p.bgPixels[j]]
      x == p.Tick - 1
      showSprites == x >= 8 \/ ~p.flagClipSprites
      showBackground == x >= 8 \/ ~p.flagClipBackground
      hit == /\ showSprites /\ showBackground
             /\ x \in DOMAIN p.fgPixels /\ bgPixel # -1
             /\ x \in p.fgPixelIsSprite0 /\ x < 255
  IN IF x > 256 THEN [w EXCEPT !.ppu.bgPixels = moved]
     ELSE [w EXCEPT !.ppu.bgPixels = moved,
                    !.ppu.flagSprite0Hit = @ \/ hit]

\* a PPU that raises VBlank one scanline late
vblankLineLate == 241 + 1

\* the interrupt-assert scanline of PPU.Step
vblankLine == 241

\* PPU.Step: the world after the tick and whether an image was returned.
\* A read that ends the process ends the tick where it is
PPUStep(w) ==
  Bind([w EXCEPT !.ppu = incrementTick(w.ppu)], LAMBDA w1 :
    LET p1 == w1.ppu
        isRendering == p1.flagShowBackground \/ p1.flagShowSprites
        isVisible == p1.Scanline <= 239
        isVBlankLine == p1.Scanline = vblankLine
        isPrerender == p1.Scanline = 261
        inFetchRange == (p1.Tick >= 1 /\ p1.Tick <= 256) \/ (p1.Tick >= 321 /\ p1.Tick <= 336)
        isDrawing == isRendering /\ isVisible /\ inFetchRange
        isFetching == isRendering /\ (isVisible \/ isPrerender) /\ inFetchRange
                      /\ p1.Tick % 8 = 0
        vblank == isVBlankLine /\ p1.Tick = 1
    IN
    Bind(IF isDrawing THEN drawPixel(w1) ELSE w1, LAMBDA wd :
    Bind(IF isFetching
         THEN Bind(loadTile(wd), LAMBDA wt :
                [wt EXCEPT !.ppu = IF p1.Tick = 256 THEN incrementY(@)
                                   ELSE incrementCoarseX(@)])
         ELSE wd, LAMBDA w2 :
    Bind(IF vblank
         THEN Bind([w2 EXCEPT !.ppu.flagVBlankOutstanding = TRUE],
                   LAMBDA wv : IF p1.flagNMIOnVBlank THEN NMI(wv).w ELSE wv)
         ELSE IF isPrerender /\ p1.Tick = 1
         THEN [w2 EXCEPT !.ppu.flagVBlankOutstanding = FALSE,
                         !.ppu.flagScanlineSpritesMax = FALSE,
                         !.ppu.flagSprite0Hit = FALSE]
         ELSE w2, LAMBDA w3 :
    Bind(IF isRendering /\ p1.Tick = 257 THEN loadSprites(w3) ELSE w3, LAMBDA w4 :
    Bind(IF (isVisible \/ isPrerender) /\ isRendering /\ p1.Tick = 260
         THEN CartNextScanline(w4)
         ELSE w4, LAMBDA w5 :
    Bind(IF isRendering
         THEN IF (isVisible \/ isPrerender) /\ p1.Tick = 257
              THEN copyHorizontalBitsToV(w5.ppu)
              ELSE IF isPrerender /\ p1.Tick = 304
                   THEN copyVerticalBitsToV(w5.ppu)
                   ELSE w5.ppu
         ELSE w5.ppu, LAMBDA p6 :
      [w |-> [w5 EXCEPT !.ppu = [p6 EXCEPT !.numCycles = @ + 1]],
       image |-> vblank /\ w5.exit = 0])))))))

\* a loop condition that lets the PPU run one tick past the CPU
ppuBehindInclusive(ppuCycles, cpuCycles) == ppuCycles <= cpuCycles * 3

\* the condition of the loop of Console.Step: ppuCycles < cpuCycles*3
ppuBehind(ppuCycles, cpuCycles) == ppuCycles < cpuCycles * 3

\* one pass of the loop of Console.Step on the loop state st; n counts the
\* PPU.Step calls made and vb those that reached (241, 1)
ppuLoopBody(st, cpuCycles) ==
  IF st.done THEN st
  ELSE IF ~ppuBehind(st.ppuCycles, cpuCycles) THEN [st EXCEPT !.done = TRUE]
  ELSE Bind(PPUStep(st.w), LAMBDA r :
         LET hit == IF r.w.ppu.Scanline = 241 /\ r.w.ppu.Tick = 1 THEN 1 ELSE 0
         IN [w |-> r.w, ppuCycles |-> r.w.ppu.numCycles, image |-> r.image,
             n |-> st.n + 1, vb |-> st.vb + hit,
             done |-> r.image \/ r.w.exit # 0])

\* at most k passes of the loop, evaluated by halving k
RECURSIVE ppuLoop(_, _, _)
ppuLoop(st, cpuCycles, k) ==
  IF st.done THEN st
  ELSE IF k = 1 THEN ppuLoopBody(st, cpuCycles)
  ELSE Bind(ppuLoop(st, cpuCycles, k \div 2), LAMBDA h :
         IF h.done THEN h ELSE ppuLoop(h, cpuCycles, k - k \div 2))

\* Console.Step.  The loop runs until the PPU has caught up with the CPU
\* or returned an image: an instruction takes at most 7 + 8 + 513 cycles,
\* and the PPU is behind by at most one instruction more when the call
\* before returned early with the image, so that 2 * 3 * (7 + 8 + 513) + 1
\* passes are never all used
ConsoleStep(w) ==
  Bind(Step(w), LAMBDA s :
    IF s.w.exit # 0
    THEN [w |-> s.w, image |-> FALSE, err |-> FALSE, n |-> 0, vb |-> 0]
    ELSE IF s.err
    THEN [w |-> s.w, image |-> FALSE, err |-> TRUE, n |-> 0, vb |-> 0]
    ELSE Bind(ppuLoop([w |-> s.w, ppuCycles |-> 0, image |-> FALSE,
                       n |-> 0, vb |-> 0, done |-> FALSE],
                      s.result, 2 * 3 * (7 + 8 + 513) + 1), LAMBDA st :
           [w |-> st.w, image |-> st.image, err |-> FALSE,
            n |-> st.n, vb |-> st.vb]))

\* NewConsole(cart)
NewConsole(c) ==
  LET w0 == [cpu |-> 0, ppu |-> NewPPU, m1 |-> NewMapper1, m4 |-> NewMapper4(c),
             nrom |-> NewMapper0(c), unrom |-> NewMapper2(c),
             cart |-> c,
             joy |-> [i \in 0..1 |-> NewJoypad],
             exit |-> 0,
             keys |-> NoKeys]
  IN Bind(w0, LAMBDA w : [w EXCEPT !.cpu = NewCPU(w)])

\* GUI.Run, up to its main loop: the key callback is registered for
\* Joypads[0]
Run(w) == [w EXCEPT !.joy[0] = SetReadKeysCallback(@)]

\* the world the variables take after a call made while the process runs;
\* a call that ended the process leaves nothing but the way it ended
Becomes(w) ==
  /\ exit = 0
  /\ exit' = w.exit
  /\ cpu' = IF w.exit = 0 THEN w.cpu ELSE cpu
  /\ ppu' = IF w.exit = 0 THEN w.ppu ELSE ppu
  /\ m1' = IF w.exit = 0 THEN w.m1 ELSE m1
  /\ m4' = IF w.exit = 0 THEN w.m4 ELSE m4
  /\ nrom' = IF w.exit = 0 THEN w.nrom ELSE nrom
  /\ unrom' = IF w.exit = 0 THEN w.unrom ELSE unrom
  /\ cart' = IF w.exit = 0 THEN w.cart ELSE cart
  /\ joy' = IF w.exit = 0 THEN w.joy ELSE joy

-----------------------------------------------------------------------------
(* SpecPPU: the PPU of a powered-on console ticked on its own, with the    *)
(* mask register ($2001) rewritten by the CPU during the idle scanlines.   *)

MaskValues == {0, 8, 16}

PowerOn == NewConsole(NewCartridge(2, 0, 4))

InitPPU ==
  /\ cpu = PowerOn.cpu
  /\ ppu = PowerOn.ppu
  /\ m1 = PowerOn.m1
  /\ m4 = PowerOn.m4
  /\ nrom = PowerOn.nrom
  /\ unrom = PowerOn.unrom
  /\ cart = PowerOn.cart
  /\ joy = PowerOn.joy
  /\ exit = PowerOn.exit
  /\ obs = [op |-> "NewConsole", image |-> FALSE, frameTicks |-> 0,
            lastFrame |-> 0, lastFrameLen |-> 0, lastFrameRendering |-> FALSE,
            lastFrameBackground |-> FALSE, wraps |-> 0]

\* one call of PPU.Step
PPUTick ==
  /\ ppu.Frame < MaxFrames
  /\ \E r \in {PPUStep(World)} :
       LET wrapped == r.w.ppu.Frame # ppu.Frame
       IN
        /\ Becomes(r.w)
        /\ obs' = IF wrapped
                  THEN [op |-> "PPUStep", image |-> r.image, frameTicks |-> 1,
                        lastFrame |-> ppu.Frame, lastFrameLen |-> obs.frameTicks,
                        lastFrameRendering |-> ppu.flagShowBackground \/ ppu.flagShowSprites,
                        lastFrameBackground |-> ppu.flagShowBackground,
                        wraps |-> obs.wraps + 1]
                  ELSE [obs EXCEPT !.op = "PPUStep", !.image = r.image,
                                   !.frameTicks = @ + 1]

\* a CPU write to $2001 while the PPU is on an idle scanline
PPUMask ==
  /\ ppu.Frame < MaxFrames
  /\ ppu.Scanline \in 241..260
  /\ \E value \in MaskValues :
       \E r \in {write(World, 8193, value)} :
          /\ r.w.ppu # ppu
          /\ Becomes(r.w)
          /\ obs' = [obs EXCEPT !.image = FALSE]

NextPPU == PPUTick \/ PPUMask

SpecPPU == InitPPU /\ [][NextPPU]_vars

\* C3: between two consecutive wraps of Scanline from 261 to 0, a frame whose
\* Frame counter is even takes 341 * 262 = 89342 calls of PPU.Step, and a
\* frame whose Frame counter is odd takes 89341 when rendering is enabled.
C3_FrameLength ==
  obs.wraps >= 2 =>
    /\ obs.lastFrame % 2 = 0 => obs.lastFrameLen = 341 * 262
    /\ (obs.lastFrame % 2 = 1 /\ obs.lastFrameRendering)
         => obs.lastFrameLen = 341 * 262 - 1

\* an odd frame with rendering on and then an even frame have both completed
C3_Witness ==
  /\ obs.wraps = 3
  /\ obs.lastFrame = 2
  /\ obs.lastFrameLen = 341 * 262
  /\ ppu.Scanline = 0 /\ ppu.Tick = 0

-----------------------------------------------------------------------------
(* SpecConsole: Console.Step called repeatedly from power-on, as GUI.Run   *)
(* does, on the cartridge holding the program above; and the same from a   *)
(* console about to run, at $0300 in RAM, two OAM DMAs in a row.           *)

MaxCpuCycles == 60000

\* STA $4014, STA $4014, NOP
TwoDMAs == <<141, 20, 64, 141, 20, 64, 234>>

ConsoleCPUs ==
  {PowerOn.cpu,
   [PowerOn.cpu EXCEPT !.PC = 768, !.A = 2,
                       !.RAM = [a \in 768..774 |-> TwoDMAs[a - 767]]]}

InitConsole ==
  /\ cpu \in ConsoleCPUs
  /\ ppu = PowerOn.ppu
  /\ m1 = PowerOn.m1
  /\ m4 = PowerOn.m4
  /\ nrom = PowerOn.nrom
  /\ unrom = PowerOn.unrom
  /\ cart = PowerOn.cart
  /\ joy = Run(PowerOn).joy
  /\ exit = PowerOn.exit
  /\ obs = [op |-> "NewConsole", image |-> FALSE, err |-> FALSE,
            n |-> 0, vb |-> 0, images |-> 0,
            frameImages |-> 0, lastFrameImages |-> 0, wraps |-> 0]

\* one call of Console.Step; a is whether the host's A key is held
ConsoleStepCall ==
  /\ cpu.NumCycles < MaxCpuCycles
  /\ ~obs.err
  /\ \E a \in BOOLEAN :
       \E r \in {ConsoleStep(WorldWith([NoKeys EXCEPT !.A = a]))} :
       LET img == IF r.image THEN 1 ELSE 0
           wrapped == r.w.ppu.Frame # ppu.Frame
       IN /\ Becomes(r.w)
          /\ obs' = [op |-> "ConsoleStep", image |-> r.image, err |-> r.err,
                     n |-> r.n, vb |-> r.vb,
                     images |-> obs.images + img,
                     frameImages |-> IF wrapped THEN 0 ELSE obs.frameImages + img,
                     lastFrameImages |-> IF wrapped THEN obs.frameImages + img
                                         ELSE obs.lastFrameImages,
                     wraps |-> IF wrapped THEN obs.wraps + 1 ELSE obs.wraps]

NextConsole == ConsoleStepCall

SpecConsole == InitConsole /\ [][NextConsole]_vars

\* C1: after a Console.Step that returns no image and no error the PPU has
\* run exactly 3 ticks per CPU cycle, and after any Console.Step the PPU has
\* run at most 3 ticks per CPU cycle.
C1_PPULockedToCPU ==
  obs.op = "ConsoleStep" =>
    /\ (~obs.image /\ ~obs.err) => ppu.numCycles = 3 * cpu.NumCycles
    /\ ppu.numCycles <= 3 * cpu.NumCycles

\* the second of two OAM DMAs in a row, the first call having returned the
\* image after one tick: the second call made the 3095 ticks that bring the
\* PPU level with the 1032 cycles of the CPU
C1_Witness ==
  /\ obs.op = "ConsoleStep" /\ ~obs.image /\ ~obs.err
  /\ obs.n = 3095
  /\ obs.images = 1
  /\ cpu.NumCycles = 1032
  /\ ppu.numCycles = 3 * cpu.NumCycles

\* C2: from power-on, the first Console.Step that returns an image does so
\* with the CPU's NumCycles within 3 of 29781.
C2_FirstImageAfterOneFrame ==
  (obs.op = "ConsoleStep" /\ obs.image /\ obs.images = 1)
     => (cpu.NumCycles >= 29781 - 3 /\ cpu.NumCycles <= 29781 + 3)

\* the first Console.Step after power-on returns the first image
C2_FirstImageOnFirstCall ==
  /\ obs.op = "ConsoleStep" /\ obs.image /\ obs.images = 1
  /\ cpu.NumCycles = 2
  /\ ppu.numCycles = 1

\* C4: PPU.Step returns an image on the tick that reaches Scanline 241,
\* Tick 1 and on no other tick; Console.Step returns it from the call in
\* which that tick ran; and exactly one image is returned between two
\* consecutive frame wraps.
C4_OneImagePerVBlank ==
  obs.op = "ConsoleStep" =>
    /\ obs.vb <= 1
    /\ obs.image <=> obs.vb = 1
    /\ obs.image => (ppu.Scanline = 241 /\ ppu.Tick = 1)
    /\ obs.wraps >= 2 => obs.lastFrameImages = 1

\* the image of the frame after a complete frame is being returned
C4_Witness ==
  /\ obs.op = "ConsoleStep" /\ obs.image /\ obs.vb = 1
  /\ obs.wraps = 2 /\ obs.lastFrameImages = 1 /\ obs.images = 3
  /\ ppu.Scanline = 241 /\ ppu.Tick = 1

-----------------------------------------------------------------------------
(* SpecBus: CPU bus reads and writes in the work RAM range $0000-$1FFF.    *)

\* offsets within the 2 KiB RAM, each used through all four mirrors
BusOffsets == {0, 255, 2047}
BusAddresses == {o + 2048 * k : o \in BusOffsets, k \in 0..3}
BusValues == {0, 1, 255}

InitBus ==
  /\ cpu = PowerOn.cpu
  /\ ppu = PowerOn.ppu
  /\ m1 = PowerOn.m1
  /\ m4 = PowerOn.m4
  /\ nrom = PowerOn.nrom
  /\ unrom = PowerOn.unrom
  /\ cart = PowerOn.cart
  /\ joy = PowerOn.joy
  /\ exit = PowerOn.exit
  /\ obs = [op |-> "NewConsole", a |-> 0, v |-> 0, result |-> 0,
            before |-> EmptyMem]

\* c.write(a, v)
BusWrite ==
  \E a \in BusAddresses, v \in BusValues :
    \E r \in {write(World, a, v)} :
       /\ Becomes(r.w)
       /\ obs' = [op |-> "write", a |-> a, v |-> v, result |-> r.cycles,
                  before |-> cpu.RAM]

\* c.read(a)
BusRead ==
  \E a \in BusAddresses :
    \E r \in {read(World, a)} :
       /\ Becomes(r.w)
       /\ obs' = [op |-> "read", a |-> a, v |-> 0, result |-> r.result,
                  before |-> cpu.RAM]

NextBus == BusWrite \/ BusRead

SpecBus == InitBus /\ [][NextBus]_vars

\* C5: a bus read at a in [$0000, $2000) returns RAM[a mod $800]; a bus
\* write of v at a is read back at a and at every mirror of a, and changes
\* no other RAM byte.
C5_RAMMirrored ==
  /\ DOMAIN cpu.RAM \subseteq 0..2047
  /\ obs.op = "read" => obs.result = Rd(obs.before, obs.a % 2048)
  /\ obs.op = "write" =>
       /\ \A k \in 0..3 : read(World, (obs.a % 2048) + 2048 * k).result = obs.v
       /\ read(World, obs.a).result = obs.v
       /\ \A i \in (DOMAIN cpu.RAM) \cup (DOMAIN obs.before) :
            i # obs.a % 2048 => Rd(cpu.RAM, i) = Rd(obs.before, i)

\* a byte written at offset $0FF has been read back at $00FF
C5_Witness ==
  /\ obs.op = "read" /\ obs.a = 255 /\ obs.result = 255
  /\ Rd(cpu.RAM, 255) = 255 /\ Rd(cpu.RAM, 2047) = 1

-----------------------------------------------------------------------------
(* SpecCPU: CPU.Step run over short programs placed in work RAM at $0300,  *)
(* from every register state the claims quantify over.                     *)

Bytes == 0..255
CornerSPs == {0, 1, 253, 255}
Programs == {"phapla", "phpplp", "brk", "adcsbc"}
ProgramBase == 3 * 256

\* the machine code of a program; m is the operand of ADC and SBC
ProgramBytes(prog, m) ==
  CASE prog = "phapla" -> <<72, 104>>
    [] prog = "phpplp" -> <<8, 40>>
    [] prog = "brk"    -> <<0>>
    [] prog = "adcsbc" -> <<105, m, 233, m>>

\* the number of instructions run; BRK continues with the PHP and PLP at
\* the head of the handler its vector names
ProgramSteps(prog) == IF prog = "brk" THEN 3 ELSE 2

\* the registers and flags a claim compares before and after
Registers(c) ==
  [A |-> c.A, SP |-> c.SP,
   C |-> c.flagCarry, Z |-> c.flagZero, I |-> c.flagInterruptDisable,
   D |-> c.flagDecimalMode, B |-> c.flagBreak, V |-> c.flagOverflow,
   N |-> c.flagSign]

\* the console with the program in RAM and the registers set
InitCPUWith(prog, a, sp, m, f) ==
  LET code == ProgramBytes(prog, m)
      c == [PowerOn.cpu EXCEPT
              !.PC = ProgramBase, !.A = a, !.SP = sp,
              !.flagCarry = f[1], !.flagZero = f[2],
              !.flagInterruptDisable = f[3], !.flagDecimalMode = f[4],
              !.flagOverflow = f[5], !.flagSign = f[6],
              !.RAM = [i \in ProgramBase..(ProgramBase + Len(code) - 1)
                         |-> code[i - ProgramBase + 1]]]
  IN /\ cpu = c
     /\ obs = [op |-> "NewConsole", prog |-> prog, m |-> m, step |-> 0,
               err |-> FALSE, pre |-> Registers(c)]
     /\ ppu = PowerOn.ppu
     /\ m1 = PowerOn.m1
     /\ m4 = PowerOn.m4
     /\ nrom = PowerOn.nrom
     /\ unrom = PowerOn.unrom
     /\ cart = PowerOn.cart
     /\ joy = PowerOn.joy
     /\ exit = PowerOn.exit

InitCPU ==
  \/ \E a \in Bytes, sp \in Bytes :
       InitCPUWith("phapla", a, sp, 0, [i \in 1..6 |-> i = 3])
  \/ \E prog \in {"phpplp", "brk"}, sp \in CornerSPs, f \in [1..6 -> BOOLEAN] :
       InitCPUWith(prog, 0, sp, 0, f)
  \/ \E a \in Bytes, m \in Bytes :
       InitCPUWith("adcsbc", a, 253, m, [i \in 1..6 |-> i = 1 \/ i = 3])

\* one call of CPU.Step
CPUStep ==
  /\ obs.step < ProgramSteps(obs.prog)
  /\ ~obs.err
  /\ \E r \in {Step(World)} :
        /\ Becomes(r.w)
        /\ obs' = [obs EXCEPT !.op = "Step", !.step = @ + 1, !.err = r.err,
                              !.pre = IF obs.prog = "brk" /\ obs.step = 0
                                      THEN Registers(r.w.cpu) ELSE @]

NextCPU == CPUStep

SpecCPU == InitCPU /\ [][NextCPU]_vars

\* the program has run to its end
Done == obs.step = ProgramSteps(obs.prog) /\ ~obs.err

\* C6: after PHA then PLA, A and SP are unchanged and Z and N are (A = 0)
\* and bit 7 of A, for every A and every SP in 0..255.
C6_PhaPlaRoundTrip ==
  (obs.prog = "phapla" /\ Done) =>
    /\ cpu.A = obs.pre.A
    /\ cpu.SP = obs.pre.SP
    /\ cpu.flagZero = (obs.pre.A = 0)
    /\ cpu.flagSign = (obs.pre.A >= 128)

\* PHA at SP = 0 stored A at $0100 and PLA fetched $0200 instead
C6_StackPointerZero ==
  /\ obs.prog = "phapla" /\ Done
  /\ obs.pre.SP = 0 /\ obs.pre.A = 66
  /\ Rd(cpu.RAM, 256) = 66
  /\ cpu.A = 0 /\ cpu.flagZero

\* C7: after PHP then PLP each of the flags C, Z, I, D, B, V, N has the value
\* it had before the PHP, also when a BRK has been executed before.
C7_PhpPlpRoundTrip ==
  (obs.prog \in {"phpplp", "brk"} /\ Done) =>
    /\ cpu.flagCarry = obs.pre.C
    /\ cpu.flagZero = obs.pre.Z
    /\ cpu.flagInterruptDisable = obs.pre.I
    /\ cpu.flagDecimalMode = obs.pre.D
    /\ cpu.flagBreak = obs.pre.B
    /\ cpu.flagOverflow = obs.pre.V
    /\ cpu.flagSign = obs.pre.N

\* after a BRK the B flag was set before the PHP and is clear after the PLP
C7_BreakFlagLost ==
  /\ obs.prog = "brk" /\ Done
  /\ obs.pre.SP = 250
  /\ obs.pre.B /\ ~cpu.flagBreak

\* C8 as stated: starting with C = 1, ADC M then SBC M leaves A unchanged
\* and C = 1, for every A and M in 0..255.
C8_AdcSbcRoundTrip ==
  (obs.prog = "adcsbc" /\ Done) =>
    /\ cpu.A = obs.pre.A
    /\ cpu.flagCarry

\* C8: starting with C = 1, ADC M then SBC M leaves A unchanged and C = 1
\* whenever the ADC carries nothing out (A + M + 1 <= 255); when it carries
\* out, the SBC borrows nothing and A ends one higher, modulo 256.
C8_AdcSbcCarry ==
  (obs.prog = "adcsbc" /\ Done) =>
    /\ obs.pre.A + obs.m + 1 <= 255 => (cpu.A = obs.pre.A /\ cpu.flagCarry)
    /\ obs.pre.A + obs.m + 1 > 255 => cpu.A = (obs.pre.A + 1) % 256

\* a round trip without carry out of the ADC, at the largest such sum
C8_Witness ==
  /\ obs.prog = "adcsbc" /\ Done
  /\ obs.pre.A = 100 /\ obs.m = 154 /\ obs.pre.C
  /\ cpu.A = 100 /\ cpu.flagCarry

-----------------------------------------------------------------------------
(* SpecMMC1: CPU writes to the serial port of an MMC1 cartridge.           *)

MaxWrites == 11
M1Addresses == {32768, 40960, 49152, 65535}
M1Values == {0, 1, 128}

PowerOnMMC1 == NewConsole(NewCartridge(2, 2, 1))

\* the four registers as the 5-bit values last latched into them; the PRG
\* register keeps four bits
Mapper1Registers(m, c) ==
  [control |-> (CASE c.Mirror = "singleLow" -> 0
                  [] c.Mirror = "singleHigh" -> 1
                  [] c.Mirror = "vertical" -> 2
                  [] OTHER -> 3)
               + m.prgBankMode * 4 + (IF m.chr8kMode THEN 0 ELSE 16),
   chr0 |-> m.chrBank[0] * 2 + m.chrBankOffset[0] \div 4096,
   chr1 |-> m.chrBank[1] * 2 + m.chrBankOffset[1] \div 4096,
   prg |-> m.prgBank]

\* the register that address & 0xE000 selects
Mapper1Select(address) ==
  CASE address \div 8192 = 4 -> "control"
    [] address \div 8192 = 5 -> "chr0"
    [] address \div 8192 = 6 -> "chr1"
    [] OTHER -> "prg"

InitMMC1 ==
  /\ cpu = PowerOnMMC1.cpu
  /\ ppu = PowerOnMMC1.ppu
  /\ m1 = PowerOnMMC1.m1
  /\ m4 = PowerOnMMC1.m4
  /\ nrom = PowerOnMMC1.nrom
  /\ unrom = PowerOnMMC1.unrom
  /\ cart = PowerOnMMC1.cart
  /\ joy = PowerOnMMC1.joy
  /\ exit = PowerOnMMC1.exit
  /\ obs = [op |-> "NewConsole", address |-> 0, value |-> 0, writes |-> 0,
            run |-> 0, bits |-> <<>>,
            before |-> Mapper1Registers(PowerOnMMC1.m1, PowerOnMMC1.cart)]

\* a CPU write to $8000-$FFFF; run counts the writes with bit 7 clear since
\* the last write with bit 7 set, bits holds bit 0 of the last five of them
M1Write ==
  /\ obs.writes < MaxWrites
  /\ \E address \in M1Addresses, value \in M1Values :
       \E r \in {write(World, address, value)} :
       LET clear == value < 128
           bits == IF clear THEN obs.bits \o <<value % 2>> ELSE <<>>
       IN /\ Becomes(r.w)
          /\ obs' = [op |-> "write", address |-> address, value |-> value,
                     writes |-> obs.writes + 1,
                     run |-> IF clear THEN obs.run + 1 ELSE 0,
                     bits |-> IF Len(bits) > 5 THEN Tail(bits) ELSE bits,
                     before |-> Mapper1Registers(m1, cart)]

NextMMC1 == M1Write

SpecMMC1 == InitMMC1 /\ [][NextMMC1]_vars

\* the 5-bit value made of the last five bits written, first bit lowest
LatchedValue ==
  obs.bits[1] + 2 * obs.bits[2] + 4 * obs.bits[3] + 8 * obs.bits[4] + 16 * obs.bits[5]

\* C9: of any five consecutive writes with bit 7 clear exactly one updates
\* a register: the fifth, tenth, ... since the last write with bit 7 set
\* loads the register its address selects and no other register, the other
\* writes change no register; a write with bit 7 set zeroes the shift count
\* and changes no register and not the mirroring.
C9_SerialPort ==
  obs.op = "write" =>
    LET now == Mapper1Registers(m1, cart)
        sel == Mapper1Select(obs.address)
    IN /\ (obs.value >= 128) => (m1.shiftRegisterCount = 0 /\ now = obs.before)
       /\ (obs.value < 128 /\ obs.run % 5 # 0) => now = obs.before
       /\ (obs.value < 128 /\ obs.run % 5 = 0) =>
            now = [obs.before EXCEPT
                     ![sel] = IF sel = "prg" THEN LatchedValue % 16 ELSE LatchedValue]

\* a second run of five writes, begun after a reset in mid-run, has loaded
\* the control register and changed the mirroring
C9_Witness ==
  /\ obs.op = "write" /\ obs.value < 128 /\ obs.run = 5 /\ obs.writes >= 8
  /\ obs.address = 32768
  /\ cart.Mirror = "vertical"
  /\ Mapper1Registers(m1, cart) # obs.before

\* the registers after the same five bits are written to one address of a
\* console that has seen no write at all
LatchReplay(address, bits) ==
  Bind(write(PowerOnMMC1, address, bits[1]).w, LAMBDA w1 :
  Bind(write(w1, address, bits[2]).w, LAMBDA w2 :
  Bind(write(w2, address, bits[3]).w, LAMBDA w3 :
  Bind(write(w3, address, bits[4]).w, LAMBDA w4 :
  Bind(write(w4, address, bits[5]).w, LAMBDA w5 :
    Mapper1Registers(w5.m1, w5.cart))))))

\* C37: the value latched by the fifth write since the last write with
\* bit 7 set or the last latch is bit 0 of those five writes, first write
\* lowest; it is in the register that (address & $E000) of the fifth write
\* selects, and it is the value the same five writes latch on a console
\* that was written nothing before them, whatever came before the run.
C37_LatchedValueIndependent ==
  (obs.op = "write" /\ obs.value < 128 /\ obs.run > 0 /\ obs.run % 5 = 0) =>
    LET sel == Mapper1Select(obs.address)
        now == Mapper1Registers(m1, cart)
        bits == [i \in 1..5 |-> obs.bits[i]]
        fromBits == bits[1] + 2 * bits[2] + 4 * bits[3] + 8 * bits[4] + 16 * bits[5]
    IN /\ Len(obs.bits) = 5
       /\ now[sel] = IF sel = "prg" THEN fromBits % 16 ELSE fromBits
       /\ now[sel] = LatchReplay(obs.address, bits)[sel]
       /\ m1.shiftRegisterCount = 0

\* the second latch of a run of ten writes that followed a reset: CHR bank 0
\* held %01010 from the first latch and holds %10101 now
C37_Witness ==
  /\ obs.op = "write" /\ obs.run = 10 /\ obs.writes = 11
  /\ obs.address = 40960
  /\ obs.bits = <<1, 0, 1, 0, 1>>
  /\ obs.before.chr0 = 10
  /\ Mapper1Registers(m1, cart).chr0 = 21

-----------------------------------------------------------------------------
(* SpecMMC3: the scanline counter of an MMC3 cartridge under next-scanline *)
(* calls, CPU writes to the IRQ registers and the CPU's IRQ poll.          *)

M4Addresses == {49152, 49153, 57344, 57345, 61440, 61441}
M4Values == {0, 1, 2, 3}

\* the IRQ state of the mapper
IRQState(m) ==
  [irqCounter |-> m.irqCounter, irqLatch |-> m.irqLatch,
   irqReloadPending |-> m.irqReloadPending, irqEnable |-> m.irqEnable,
   irqAssert |-> m.irqAssert]

InitMMC3 ==
  /\ cpu = PowerOn.cpu
  /\ ppu = PowerOn.ppu
  /\ m1 = PowerOn.m1
  /\ m4 = PowerOn.m4
  /\ nrom = PowerOn.nrom
  /\ unrom = PowerOn.unrom
  /\ cart = PowerOn.cart
  /\ joy = PowerOn.joy
  /\ exit = PowerOn.exit
  /\ obs = [op |-> "NewConsole", address |-> 0, value |-> 0, isIRQ |-> FALSE,
            before |-> IRQState(PowerOn.m4)]

\* Cart.NextScanline(), as PPU.Step calls it
M4NextScanline ==
  /\ Becomes(CartNextScanline(World))
  /\ obs' = [op |-> "NextScanline", address |-> 0, value |-> 0, isIRQ |-> FALSE,
             before |-> IRQState(m4)]

\* a CPU write to one of the IRQ registers
M4Write ==
  \E address \in M4Addresses, value \in M4Values :
    \E r \in {write(World, address, value)} :
       /\ Becomes(r.w)
       /\ obs' = [op |-> "write", address |-> address, value |-> value,
                  isIRQ |-> FALSE, before |-> IRQState(m4)]

\* Cart.IRQ(), as CPU.Step calls it
M4IRQ ==
  \E r \in {CartIRQ(World)} :
     /\ Becomes(r.w)
     /\ obs' = [op |-> "IRQ", address |-> 0, value |-> 0, isIRQ |-> r.isIRQ,
                before |-> IRQState(m4)]

NextMMC3 == M4NextScanline \/ M4Write \/ M4IRQ

SpecMMC3 == InitMMC3 /\ [][NextMMC3]_vars

\* the call found a zero counter or a pending reload, and so reloaded
Reloaded == obs.before.irqCounter = 0 \/ obs.before.irqReloadPending

\* C10 as stated: a call on a non-zero counter with no reload pending
\* decrements it by one, a call on a zero counter reloads it from the latch,
\* and the IRQ line becomes asserted on the calls that reload the counter to
\* zero while IRQ is enabled and on no other call.
C10_AssertOnlyOnReload ==
  obs.op = "NextScanline" =>
    /\ ~Reloaded => m4.irqCounter = obs.before.irqCounter - 1
    /\ obs.before.irqCounter = 0 => m4.irqCounter = obs.before.irqLatch
    /\ (m4.irqAssert /\ ~obs.before.irqAssert)
         <=> (~obs.before.irqAssert /\ Reloaded /\ m4.irqCounter = 0 /\ m4.irqEnable)

\* C10: a call on a non-zero counter with no reload pending decrements it by
\* one, a call on a zero counter or with a reload pending reloads it from
\* the latch, and the IRQ line becomes asserted on the calls that leave the
\* counter at zero, by reload or by decrement, while IRQ is enabled and on
\* no other call; an asserted line stays asserted.
C10_AssertOnZero ==
  obs.op = "NextScanline" =>
    /\ ~Reloaded => m4.irqCounter = obs.before.irqCounter - 1
    /\ Reloaded => (m4.irqCounter = obs.before.irqLatch /\ ~m4.irqReloadPending)
    /\ m4.irqEnable = obs.before.irqEnable
    /\ m4.irqAssert <=> (obs.before.irqAssert \/ (m4.irqCounter = 0 /\ m4.irqEnable))

\* the counter was decremented from one to zero with IRQ enabled, and the
\* line became asserted
C10_Witness ==
  /\ obs.op = "NextScanline"
  /\ obs.before.irqCounter = 1 /\ ~obs.before.irqReloadPending
  /\ obs.before.irqEnable /\ ~obs.before.irqAssert
  /\ m4.irqCounter = 0 /\ m4.irqAssert

\* C21: a CPU write at an even address of $E000-$FFFF disables IRQ and
\* clears the asserted state, one at an odd address enables IRQ, and both
\* leave the latch, the counter and the reload-pending flag as they were; a
\* write at an even address of $C000-$DFFF sets only the latch, one at an odd
\* address only requests a reload and zeroes the counter.
C21_IRQRegisterDecoding ==
  LET now == IRQState(m4)
      even == obs.address % 2 = 0
  IN obs.op = "write" =>
       /\ (obs.address >= 57344 /\ even)
            => now = [obs.before EXCEPT !.irqEnable = FALSE, !.irqAssert = FALSE]
       /\ (obs.address >= 57344 /\ ~even)
            => now = [obs.before EXCEPT !.irqEnable = TRUE]
       /\ (obs.address >= 49152 /\ obs.address < 57344 /\ even)
            => now = [obs.before EXCEPT !.irqLatch = obs.value]
       /\ (obs.address >= 49152 /\ obs.address < 57344 /\ ~even)
            => now = [obs.before EXCEPT !.irqReloadPending = TRUE,
                                        !.irqCounter = 0]

\* the write at $E001 found IRQ disabled and the counter at 3: IRQ is still
\* disabled, and the counter was zeroed with a reload requested
C21_EnableWriteTakenAsReload ==
  /\ obs.op = "write" /\ obs.address = 57345
  /\ ~obs.before.irqEnable /\ obs.before.irqCounter = 3
  /\ ~obs.before.irqReloadPending
  /\ ~m4.irqEnable /\ m4.irqCounter = 0 /\ m4.irqReloadPending

\* C22: a NextScanline call on a zero counter or with a reload pending
\* makes the counter the latch value and clears reload-pending, any other
\* call decreases the counter by one; after that update the IRQ is asserted
\* if and only if it was asserted before or the counter is now zero with IRQ
\* enabled.  The latch and the enable flag are not changed.
C22_CounterUpdateRule ==
  LET b == obs.before
      counter == IF b.irqCounter = 0 \/ b.irqReloadPending
                 THEN b.irqLatch ELSE b.irqCounter - 1
  IN obs.op = "NextScanline" =>
       IRQState(m4) =
         [irqCounter |-> counter,
          irqLatch |-> b.irqLatch,
          irqReloadPending |-> (b.irqReloadPending
                                  /\ ~(b.irqCounter = 0 \/ b.irqReloadPending)),
          irqEnable |-> b.irqEnable,
          irqAssert |-> (b.irqAssert \/ (counter = 0 /\ b.irqEnable))]

\* a call with a reload pending and IRQ enabled loaded the latch value 3:
\* the pending flag is gone and nothing is asserted
C22_Witness ==
  /\ obs.op = "NextScanline"
  /\ obs.before.irqReloadPending /\ obs.before.irqLatch = 3
  /\ obs.before.irqEnable /\ ~obs.before.irqAssert
  /\ m4.irqCounter = 3 /\ ~m4.irqReloadPending /\ ~m4.irqAssert

-----------------------------------------------------------------------------
(* SpecCart: a console with one cartridge of each mapper, driven over the  *)
(* CPU bus (CPU.read / CPU.write) and the PPU bus (PPU.read / PPU.write).  *)
(* A read that ends the process (a Go panic or log.Fatalf) is the last     *)
(* operation of its behaviour.                                             *)

\* the number of bus operations after which SpecCart stops
MaxCartOps == 3

\* NROM with one and with two PRG banks, MMC1, UNROM with CHR RAM, MMC3
Cartridges ==
  {NewCartridge(1, 1, 0), NewCartridge(2, 1, 0), NewCartridge(2, 2, 1),
   NewCartridge(2, 0, 2), NewCartridge(2, 0, 4)}

\* $5FFF, the ends of $6000-$7FFF, of $8000-$BFFF and of $C000-$FFFF
CartAddresses == {24575, 24576, 32767, 32768, 49151, 49152, 65535}

\* the ends of pattern memory, and $3F00/04/08/0C with their $3F1x mirrors
CartPPUAddresses ==
  {0, 8191, 16128, 16132, 16136, 16140, 16144, 16148, 16152, 16156}

CartValues == {1, 7, 255}

InitCart ==
  \E c \in Cartridges : \E w \in {NewConsole(c)} :
     /\ cpu = w.cpu
     /\ ppu = w.ppu
     /\ m1 = w.m1
     /\ m4 = w.m4
     /\ nrom = w.nrom
     /\ unrom = w.unrom
     /\ cart = w.cart
     /\ joy = w.joy
     /\ exit = w.exit
     /\ obs = [n |-> 0, op |-> "new", address |-> 0, value |-> 0, result |-> 0,
               written |-> EmptyMem, pattern |-> EmptyMem]

\* obs.written is the byte the CPU last wrote at each address of
\* $6000-$7FFF and obs.pattern the byte the PPU last wrote at each address
\* below $2000; the process is running and the bound on operations is not
\* reached
CartRunning == obs.n < MaxCartOps /\ exit = 0

CartCPUWrite ==
  /\ CartRunning
  /\ \E a \in CartAddresses, v \in CartValues : \E r \in {write(World, a, v)} :
        /\ Becomes(r.w)
        /\ obs' = [n |-> obs.n + 1, op |-> "write", address |-> a, value |-> v,
                   result |-> 0,
                   written |-> IF a >= 24576 /\ a < 32768
                               THEN Wr(obs.written, a, v) ELSE obs.written,
                   pattern |-> obs.pattern]

CartCPURead ==
  /\ CartRunning
  /\ \E a \in CartAddresses : \E r \in {read(World, a)} :
        /\ Becomes(r.w)
        /\ obs' = [n |-> obs.n + 1, op |-> "read", address |-> a, value |-> 0,
                   result |-> r.result, written |-> obs.written,
                   pattern |-> obs.pattern]

CartPPUWrite ==
  /\ CartRunning
  /\ \E a \in CartPPUAddresses, v \in CartValues :
        /\ Becomes(ppuWrite(World, a, v))
        /\ obs' = [n |-> obs.n + 1, op |-> "ppuWrite", address |-> a, value |-> v,
                   result |-> 0, written |-> obs.written,
                   pattern |-> IF a < 8192 THEN Wr(obs.pattern, a, v)
                               ELSE obs.pattern]

CartPPURead ==
  /\ CartRunning
  /\ \E a \in CartPPUAddresses : \E r \in {ppuReadCall(World, a)} :
        /\ Becomes(r.w)
        /\ obs' = [n |-> obs.n + 1, op |-> "ppuRead", address |-> a, value |-> 0,
                   result |-> r.result, written |-> obs.written,
                   pattern |-> obs.pattern]

NextCart == CartCPUWrite \/ CartCPURead \/ CartPPUWrite \/ CartPPURead

SpecCart == InitCart /\ [][NextCart]_vars

\* C11: on NROM a CPU read at a in [$8000, $C000) returns PRG[0][a - $8000];
\* a CPU read at a in [$C000, $FFFF] returns PRG[1][a - $C000] with two PRG
\* banks and PRG[0][a - $C000] with one, so that with one bank the reads at
\* a and a + $4000 return the same byte.
C11_NROMReads ==
  (cart.mapper = 0 /\ obs.op = "read" /\ obs.address >= 32768) =>
    /\ obs.address < 49152 => obs.result = PRGByte(cart, 0, obs.address - 32768)
    /\ (obs.address >= 49152 /\ cart.numPRG = 2)
         => obs.result = PRGByte(cart, 1, obs.address - 49152)
    /\ (obs.address >= 49152 /\ cart.numPRG = 1)
         => obs.result = PRGByte(cart, 0, obs.address - 49152)
    /\ (obs.address < 49152 /\ cart.numPRG = 1)
         => obs.result = read(World, obs.address + 16384).result

\* a one-bank NROM cartridge was read at $C000 and returned the first byte
\* of bank 0, the CLI opcode that is also read at $8000
C11_Witness ==
  /\ cart.mapper = 0 /\ cart.numPRG = 1
  /\ obs.op = "read" /\ obs.address = 49152
  /\ obs.result = ResetCode[1]
  /\ read(World, 32768).result = ResetCode[1]

\* C12: on NROM and on MMC1, a CPU write of v at a in [$6000, $8000)
\* followed by a CPU read at a returns v, and after writes at several
\* addresses of the range each of them still reads back the byte last
\* written to it.
C12_SRAMRoundTrip ==
  cart.mapper \in {0, 1} =>
    /\ \A a \in DOMAIN obs.written : read(World, a).result = obs.written[a]
    /\ (obs.op = "read" /\ obs.address \in DOMAIN obs.written)
         => obs.result = obs.written[obs.address]

\* on MMC1, $6000 and $7FFF were written with different bytes and the read
\* at $7FFF returned its own
C12_Witness ==
  /\ cart.mapper = 1
  /\ DOMAIN obs.written = {24576, 32767}
  /\ obs.written[24576] = 255 /\ obs.written[32767] = 7
  /\ obs.op = "read" /\ obs.address = 32767 /\ obs.result = 7

\* C13: on NROM and on UNROM a PPU read at a < $2000 returns CHR[0][a];
\* on UNROM with CHR RAM a PPU write of v at a < $2000 followed by a PPU
\* read at a returns v, whichever PRG bank is selected.
C13_PatternPassThrough ==
  cart.mapper \in {0, 2} =>
    /\ (obs.op = "ppuRead" /\ obs.address < 8192)
         => obs.result = Rd(cart.CHR, obs.address)
    /\ (cart.mapper = 2 /\ cart.chrRAM)
         => /\ \A a \in DOMAIN obs.pattern : ppuRead(World, a) = obs.pattern[a]
            /\ (obs.op = "ppuRead" /\ obs.address \in DOMAIN obs.pattern)
                 => obs.result = obs.pattern[obs.address]

\* on UNROM with PRG bank 7 selected, the byte the PPU wrote at $1FFF was
\* read back
C13_Witness ==
  /\ cart.mapper = 2 /\ cart.chrRAM
  /\ unrom.prgSwitchableBank = 7
  /\ 8191 \in DOMAIN obs.pattern /\ obs.pattern[8191] = 255
  /\ obs.op = "ppuRead" /\ obs.address = 8191 /\ obs.result = 255

\* the sprite-palette entries that mirror the background ones 16 below
SpritePaletteMirrors == {16144, 16148, 16152, 16156}

\* C14: PPU addresses $3F10, $3F14, $3F18 and $3F1C alias $3F00, $3F04,
\* $3F08 and $3F0C: a PPU write of v at either address of a pair is read
\* back as v at both, in either direction.
C14_PaletteMirrors ==
  /\ \A a \in SpritePaletteMirrors : ppuRead(World, a) = ppuRead(World, a - 16)
  /\ (obs.op = "ppuWrite"
        /\ (obs.address \in SpritePaletteMirrors
              \/ obs.address + 16 \in SpritePaletteMirrors))
       => \A a \in {obs.address, obs.address + 16, obs.address - 16} :
             (a \in SpritePaletteMirrors \/ a + 16 \in SpritePaletteMirrors)
               => ppuRead(World, a) = obs.value

\* 7 was written at $3F10 and is read at $3F00, while $3F04 holds the 255
\* written at $3F04 or $3F14
C14_Witness ==
  /\ obs.op = "ppuWrite" /\ obs.address = 16144 /\ obs.value = 7
  /\ ppuRead(World, 16128) = 7
  /\ ppuRead(World, 16148) = 255

\* C17: on every mapper a CPU read at any address and a PPU read return a
\* byte and the process goes on, and a write the mapper does not map is
\* dropped: on UNROM, which maps nothing at $6000-$7FFF, the writes there
\* store nothing.
C17_UnmappedAccessNonFatal ==
  /\ obs.op \in {"read", "ppuRead"} => (exit = 0 /\ obs.result \in 0..255)
  /\ cart.mapper = 2 => cart.SRAM = EmptyMem

\* the CPU read $6000 on UNROM and Mapper2.Read ended the process with
\* log.Fatalf
C17_UnromReadFatal ==
  /\ cart.mapper = 2
  /\ obs.op = "read" /\ obs.address = 24576
  /\ exit = -2

\* C18: whatever the program writes to the mapper registers, the bank
\* numbers stay within the banks of the cartridge and no read indexes a
\* bank that does not exist.
C18_BankIndexInRange ==
  /\ cart.mapper = 2 => unrom.prgSwitchableBank < cart.numPRG
  /\ obs.op \in {"read", "ppuRead"} => exit # -1

\* on UNROM with two PRG banks the program wrote 7 at a register address,
\* bank 7 was selected, and the read at $8000 indexed PRG[7]
C18_UnromBankOutOfRange ==
  /\ cart.mapper = 2 /\ cart.numPRG = 2
  /\ unrom.prgSwitchableBank = 7
  /\ obs.op = "read" /\ obs.address = 32768
  /\ exit = -1

-----------------------------------------------------------------------------
(* SpecJoypad: the program strobes joypad 0 through $4016 and reads it     *)
(* back, with a set of buttons held on the host when the strobe write      *)
(* samples them.                                                           *)

\* the number of reads after one write at which SpecJoypad stops reading
MaxJoyReads == 17

Buttons == {"A", "B", "Select", "Start", "Up", "Down", "Left", "Right"}

\* the host device with exactly the buttons of held down
KeysHeld(held) == [b \in Buttons |-> b \in held]

\* no button, each button alone, B with Right, and all of them
HeldSets == {{b} : b \in Buttons} \cup {{}, {"B", "Right"}, Buttons}

StrobeValues == {0, 1, 2, 3}

InitJoypad ==
  /\ cpu = PowerOn.cpu
  /\ ppu = PowerOn.ppu
  /\ m1 = PowerOn.m1
  /\ m4 = PowerOn.m4
  /\ nrom = PowerOn.nrom
  /\ unrom = PowerOn.unrom
  /\ cart = PowerOn.cart
  /\ joy = Run(PowerOn).joy
  /\ exit = PowerOn.exit
  /\ obs = [op |-> "new", wrote |-> FALSE, value |-> 0, n |-> 0, result |-> 0]

\* a CPU write at $4016; obs.n counts the reads since
JoyWrite ==
  \E v \in StrobeValues, held \in HeldSets :
     \E r \in {write(WorldWith(KeysHeld(held)), 16406, v)} :
        /\ Becomes(r.w)
        /\ obs' = [op |-> "Write", wrote |-> TRUE, value |-> v, n |-> 0,
                   result |-> 0]

\* a CPU read at $4016
JoyRead ==
  /\ obs.n < MaxJoyReads
  /\ \E r \in {read(World, 16406)} :
        /\ Becomes(r.w)
        /\ obs' = [obs EXCEPT !.op = "Read", !.n = @ + 1, !.result = r.result]

NextJoypad == JoyWrite \/ JoyRead

SpecJoypad == InitJoypad /\ [][NextJoypad]_vars

\* C15: after a Write with bit 0 clear the n-th following Read (n = 0, 1,
\* ...) returns 1 if the button at position n mod 8 of A, B, Select, Start,
\* Up, Down, Left, Right is pressed and 0 if not; after a Write with bit 0
\* set every Read returns the state of A and the read position stays put.
C15_JoypadProtocol ==
  LET order == <<"A", "B", "Select", "Start", "Up", "Down", "Left", "Right">>
      down(b) == IF joy[0][b] THEN 1 ELSE 0
  IN (obs.op = "Read" /\ obs.wrote) =>
       IF obs.value % 2 = 0
       THEN obs.result = down(order[((obs.n - 1) % 8) + 1])
       ELSE obs.result = down("A") /\ joy[0].i = 0

\* with only B and Right held, the tenth read after a strobe-low write
\* (n = 9) returned B
C15_Witness ==
  /\ obs.op = "Read" /\ obs.wrote /\ obs.value % 2 = 0
  /\ obs.n = 10
  /\ joy[0].B /\ joy[0].Right /\ ~joy[0].A /\ ~joy[0].Select
  /\ obs.result = 1

-----------------------------------------------------------------------------
(* SpecStep: calls of CPU.Step, or one of CPU.NextInstructionBytes, on the *)
(* MMC3 console, with PC in RAM, in ROM, on a PPU register or on the       *)
(* joypad port, the IRQ line of the mapper asserted or not, and the 8 KiB  *)
(* bank at $8000 as at power-on or switched to the data table of bank 1.   *)

\* the number of Step calls after which SpecStep stops
MaxStepCalls == 2

\* at $0300: NOP, the undefined opcode $02, LDA $2002
StepCode == <<234, 2, 173, 2, 32>>

\* the three instructions at $0300, $2002, $2007 and $4016, and the CLI
\* at $8000
StepPCs ==
  {ProgramBase, ProgramBase + 1, ProgramBase + 2, 8194, 8199, 16406, 32768}

\* the console after the program selected 8 KiB bank 2 for $8000-$9FFF
\* (bank select register 6 through $8000, its value through $8001)
BankSwitched == write(write(PowerOn, 32768, 6).w, 32769, 2).w

\* where the branch programs are loaded: $0000, $0300 and $07FE, the last
\* two bytes of RAM
BranchBases == {0, ProgramBase, 2046}

\* BNE and BEQ
BranchOpcodes == {208, 240}

\* the console with a branch instruction of operand b in RAM at base
InitBranch ==
  \E base \in BranchBases, op \in BranchOpcodes, b \in Bytes, z \in BOOLEAN :
     /\ cpu = [PowerOn.cpu EXCEPT
                 !.PC = base, !.flagZero = z,
                 !.RAM = [k \in {base, base + 1} |-> IF k = base THEN op ELSE b]]
     /\ ppu = PowerOn.ppu
     /\ m1 = PowerOn.m1
     /\ m4 = PowerOn.m4
     /\ nrom = PowerOn.nrom
     /\ unrom = PowerOn.unrom
     /\ cart = PowerOn.cart
     /\ joy = PowerOn.joy
     /\ exit = PowerOn.exit
     /\ obs = [op |-> "new", pre |-> 0, err |-> FALSE, result |-> 0,
               bytes |-> <<>>, n |-> 0, held |-> FALSE]

InitStepAt ==
  \E pc \in StepPCs, sp \in CornerSPs, a \in {0, 66},
     i \in BOOLEAN, irq \in BOOLEAN, sw \in BOOLEAN, vb \in BOOLEAN :
     \E w \in {IF sw THEN BankSwitched ELSE PowerOn} :
        /\ cpu = [w.cpu EXCEPT
                    !.PC = pc, !.SP = sp, !.A = a, !.flagInterruptDisable = i,
                    !.RAM = [k \in ProgramBase..(ProgramBase + Len(StepCode) - 1)
                               |-> StepCode[k - ProgramBase + 1]]]
        /\ ppu = [w.ppu EXCEPT !.flagVBlankOutstanding = vb]
        /\ m1 = w.m1
        /\ m4 = [w.m4 EXCEPT !.irqAssert = irq]
        /\ nrom = w.nrom
        /\ unrom = w.unrom
        /\ cart = w.cart
        /\ joy = w.joy
        /\ exit = w.exit
        /\ obs = [op |-> "new", pre |-> 0, err |-> FALSE, result |-> 0,
                  bytes |-> <<>>, n |-> 0, held |-> FALSE]

\* at $0300: JSR $0310, and at $0310: RTS
JsrCode == (ProgramBase :> 32) @@ (ProgramBase + 1 :> 16) @@ (ProgramBase + 2 :> 3)
             @@ (ProgramBase + 16 :> 96)

\* the console about to call the subroutine, with any stack pointer
InitJsr ==
  \E sp \in Bytes :
     /\ cpu = [PowerOn.cpu EXCEPT !.PC = ProgramBase, !.SP = sp, !.RAM = JsrCode]
     /\ ppu = PowerOn.ppu
     /\ m1 = PowerOn.m1
     /\ m4 = PowerOn.m4
     /\ nrom = PowerOn.nrom
     /\ unrom = PowerOn.unrom
     /\ cart = PowerOn.cart
     /\ joy = PowerOn.joy
     /\ exit = PowerOn.exit
     /\ obs = [op |-> "new", pre |-> 0, err |-> FALSE, result |-> 0,
               bytes |-> <<>>, n |-> 0, held |-> FALSE]

\* JMP ($6C), STA ($zp,X) and STA ($zp),Y
IndirectOpcodes == {108, 129, 145}
IndirectPointers == {16, 254, 255, 767, 2047}
IndirectIndexes == {0, 1, 255}

\* the cell the instruction of the given opcode, operand and X reads its
\* pointer's low byte from
PointerOf(op, p, x) ==
  IF op = 108 THEN p ELSE IF op = 129 THEN Byte(p + x) ELSE Byte(p)

\* the pointer's low byte $34 at from, $05 in the cell after it and $06 in
\* the first cell of its page
PointerData(from) ==
  (from :> 52) @@ ((from + 1) % 2048 :> 5) @@ (from - (from % 256) :> 6)

\* the console about to run an instruction with an indirect operand
InitIndirect ==
  \E op \in IndirectOpcodes, p \in IndirectPointers, x \in IndirectIndexes :
     /\ cpu = [PowerOn.cpu EXCEPT !.PC = ProgramBase, !.A = 119, !.X = x, !.Y = x,
                 !.RAM = (ProgramBase :> op) @@ (ProgramBase + 1 :> p % 256)
                           @@ (ProgramBase + 2 :> p \div 256)
                           @@ PointerData(PointerOf(op, p, x))]
     /\ ppu = PowerOn.ppu
     /\ m1 = PowerOn.m1
     /\ m4 = PowerOn.m4
     /\ nrom = PowerOn.nrom
     /\ unrom = PowerOn.unrom
     /\ cart = PowerOn.cart
     /\ joy = PowerOn.joy
     /\ exit = PowerOn.exit
     /\ obs = [op |-> "new", pre |-> 0, err |-> FALSE, result |-> 0,
               bytes |-> <<>>, n |-> 0, held |-> FALSE]

InitStep == InitStepAt \/ InitBranch \/ InitJsr \/ InitIndirect

\* one call of CPU.Step; obs.pre is the console before the call, obs.n the
\* number of calls made, and obs.held tells that an earlier Step began with
\* the IRQ asserted and interrupt-disable set
StepCall ==
  /\ obs.op \in {"new", "Step"}
  /\ obs.n < MaxStepCalls
  /\ ~obs.err
  /\ \E r \in {Step(World)} :
        /\ Becomes(r.w)
        /\ obs' = [op |-> "Step", pre |-> World, err |-> r.err,
                   result |-> r.result, bytes |-> <<>>, n |-> obs.n + 1,
                   held |-> IF obs.n = 0 THEN FALSE
                            ELSE obs.held \/ (obs.pre.m4.irqAssert
                                               /\ obs.pre.cpu.flagInterruptDisable)]

\* one call of CPU.NextInstructionBytes
NextInstructionBytesCall ==
  /\ obs.op = "new"
  /\ \E r \in {NextInstructionBytes(World)} :
        /\ Becomes(r.w)
        /\ obs' = [op |-> "NextInstructionBytes", pre |-> World, err |-> r.err,
                   result |-> 0, bytes |-> r.bytes, n |-> 0, held |-> FALSE]

NextStep == StepCall \/ NextInstructionBytesCall

SpecStep == InitStep /\ [][NextStep]_vars

\* the Step began with an IRQ entry
IRQEntered ==
  ~obs.pre.cpu.flagInterruptDisable /\ obs.pre.m4.irqAssert

\* C16 as stated: a Step that fetches an opcode of size 0 returns the
\* error and leaves PC, A, X, Y, SP, the flags, RAM and NumCycles exactly
\* as they were before the call.
C16_InvalidOpcodeNoEffect ==
  (obs.op = "Step" /\ obs.err) => cpu = obs.pre.cpu

\* C16: a Step that fetches an opcode of size 0 returns the error and
\* executes no instruction: A, X, Y and NumCycles are as before the call.
\* Without an IRQ entry at the start of the Step, PC, SP, the flags and RAM
\* are as before too.  With one, the entry stands: PC is the target of the
\* vector at $FFFE, SP is lower by three, interrupt-disable is set and the
\* other flags are as before.
C16_InvalidOpcodeAfterEntry ==
  (obs.op = "Step" /\ obs.err) =>
    /\ cpu.A = obs.pre.cpu.A /\ cpu.X = obs.pre.cpu.X /\ cpu.Y = obs.pre.cpu.Y
    /\ cpu.NumCycles = obs.pre.cpu.NumCycles
    /\ ~IRQEntered => cpu = obs.pre.cpu
    /\ IRQEntered =>
         /\ cpu.PC = read16(obs.pre, InterruptVector).result
         /\ cpu.SP = Byte(obs.pre.cpu.SP + 253)
         /\ cpu = [obs.pre.cpu EXCEPT !.PC = cpu.PC, !.SP = cpu.SP,
                                      !.RAM = cpu.RAM,
                                      !.flagInterruptDisable = TRUE]

\* the Step took the IRQ, found the data byte $02 at the handler address
\* $8060 and returned the error with the entry made
C16_Witness ==
  /\ obs.op = "Step" /\ obs.err /\ IRQEntered
  /\ obs.pre.cpu.PC = ProgramBase /\ obs.pre.cpu.SP = 253
  /\ cpu.PC = 32864 /\ cpu.SP = 250 /\ cpu.flagInterruptDisable
  /\ Rd(cpu.RAM, 509) = 3 /\ Rd(cpu.RAM, 508) = 0

\* C19: NextInstructionBytes returns the one to three bytes of the
\* instruction at PC and changes nothing, wherever PC points: the CPU
\* registers and RAM, the PPU registers and latches and the joypad read
\* positions are after the call what they were before it.
C19_InspectionPure ==
  obs.op = "NextInstructionBytes" =>
    /\ cpu = obs.pre.cpu
    /\ ppu = obs.pre.ppu
    /\ joy = obs.pre.joy
    /\ ~obs.err =>
         /\ Len(obs.bytes) \in 1..3
         /\ \A k \in 1..Len(obs.bytes) :
               obs.bytes[k] = read(obs.pre, Word(obs.pre.cpu.PC + k - 1)).result

\* with PC at $2002 and VBlank outstanding, the call read the status
\* register as an opcode, and the VBlank flag is gone
C19_StatusReadClearsVBlank ==
  /\ obs.op = "NextInstructionBytes"
  /\ obs.pre.cpu.PC = 8194
  /\ obs.pre.ppu.flagVBlankOutstanding
  /\ ~ppu.flagVBlankOutstanding
  /\ cpu = obs.pre.cpu

\* the console an IRQ entry leaves by the rules of the 6502: PC high at
\* $0100 + SP, PC low and P at the two stack addresses below it, SP lower
\* by three within the stack page, PC from $FFFE, interrupt-disable set,
\* and the mapper's line acknowledged by the poll
IRQEntry(w) ==
  LET sp == w.cpu.SP
      pch == Wr(w.cpu.RAM, StackBase + sp, w.cpu.PC \div 256)
      pcl == Wr(pch, StackBase + Byte(sp + 255), w.cpu.PC % 256)
      p == Wr(pcl, StackBase + Byte(sp + 254), P(w.cpu))
  IN [w EXCEPT !.cpu.RAM = p, !.cpu.SP = Byte(sp + 253),
               !.cpu.PC = read16(w, InterruptVector).result,
               !.cpu.flagInterruptDisable = TRUE,
               !.m4.irqAssert = FALSE]

\* C20: a Step that starts with interrupt-disable clear and the mapper
\* asserting IRQ pushes PC, high byte then low byte, and P, loads PC from
\* the vector at $FFFE, sets interrupt-disable, executes the instruction at
\* the new PC and charges its cycles and 7 more; a Step that starts with
\* interrupt-disable set runs its instruction as if no IRQ were asserted and
\* leaves the mapper's line as it was.
C20_IRQEntry ==
  (obs.op = "Step" /\ ~obs.err) =>
    /\ IRQEntered =>
         cpu = [Step(IRQEntry(obs.pre)).w.cpu EXCEPT !.NumCycles = @ + 7]
    /\ obs.pre.cpu.flagInterruptDisable =>
         /\ cpu = Step([obs.pre EXCEPT !.m4.irqAssert = FALSE]).w.cpu
         /\ m4.irqAssert = obs.pre.m4.irqAssert

\* the IRQ was taken at PC = $0301 with SP = 0: the high byte of PC is at
\* $0100 but the low byte went to $00FF in the zero page, and $01FF, where
\* the stack wraps to, holds nothing
C20_LowByteOffStack ==
  /\ obs.op = "Step" /\ ~obs.err /\ IRQEntered
  /\ obs.pre.cpu.SP = 0 /\ obs.pre.cpu.PC = ProgramBase + 1
  /\ Rd(cpu.RAM, 256) = 3
  /\ Rd(cpu.RAM, 255) = 1
  /\ 511 \notin DOMAIN cpu.RAM
  /\ cpu.PC = 32865 /\ cpu.flagInterruptDisable

\* C23: an IRQ assertion of the mapper is delivered once and is not lost
\* while masked.  A Step that starts with interrupt-disable set does not
\* poll: an assertion stays pending unless IRQ was disabled during the
\* Step.  A Step that starts with interrupt-disable clear and an assertion
\* pending takes it: the return address is pushed, interrupt-disable is set
\* and PC is in the handler; and once a Step has polled, a further poll
\* returns false.
C23_IRQDeliveredOnce ==
  obs.op = "Step" =>
    /\ (obs.pre.cpu.flagInterruptDisable /\ obs.pre.m4.irqAssert)
         => (m4.irqAssert \/ (obs.pre.m4.irqEnable /\ ~m4.irqEnable))
    /\ IRQEntered =>
         /\ Rd(cpu.RAM, StackBase + obs.pre.cpu.SP) = obs.pre.cpu.PC \div 256
         /\ cpu.flagInterruptDisable
         /\ cpu.PC \in {32864, 32865}
    /\ ~obs.pre.cpu.flagInterruptDisable => ~CartIRQ(World).isIRQ

\* the IRQ was asserted with interrupt-disable set; the first Step ran the
\* CLI at $8000 with the assertion held, and the second Step took it
C23_Witness ==
  /\ obs.op = "Step" /\ obs.n = 2 /\ obs.held
  /\ obs.pre.cpu.PC = 32769 /\ IRQEntered
  /\ ~m4.irqAssert /\ cpu.flagInterruptDisable /\ cpu.PC = 32865

\* C24: a Step on a branch instruction with operand byte b at PC.  If the
\* branch is taken the new PC is (PC + 2 + s) mod 2^16, s being b read as a
\* signed 8-bit value, and the Step costs the base cycles, 1 more, and 1
\* more again when the target is not on the page of PC + 2; if it is not
\* taken the new PC is PC + 2 and the Step costs the base cycles.
C24_BranchTarget ==
  LET c == obs.pre.cpu
      op == Rd(c.RAM, c.PC)
      b == Rd(c.RAM, c.PC + 1)
      s == IF b >= 128 THEN b - 256 ELSE b
      taken == IF op = 208 THEN ~c.flagZero ELSE c.flagZero
      next == Word(c.PC + 2)
      target == (c.PC + 2 + s + 65536) % 65536
      base == instructions[op + 1].NumBaseCycles
  IN (obs.op = "Step" /\ c.PC < 2047 /\ op \in BranchOpcodes) =>
       IF taken
       THEN /\ cpu.PC = target
            /\ cpu.NumCycles = c.NumCycles + base + 1
                 + (IF target \div 256 # next \div 256 THEN 1 ELSE 0)
       ELSE /\ cpu.PC = next
            /\ cpu.NumCycles = c.NumCycles + base

\* the BNE at $0300 with operand $80 was taken and went 128 bytes forward
\* of $0302, to $0382, where the target is $0282
C24_BranchBackwardsByte80 ==
  /\ obs.op = "Step"
  /\ obs.pre.cpu.PC = ProgramBase /\ Rd(obs.pre.cpu.RAM, ProgramBase) = 208
  /\ Rd(obs.pre.cpu.RAM, ProgramBase + 1) = 128
  /\ ~obs.pre.cpu.flagZero
  /\ cpu.PC = ProgramBase + 2 + 128

\* C25: the stack is the page $0100..$01FF for every SP: the writes of the
\* JSR at $0300 fall in that page, whatever SP is, and the RTS at $0310 pops
\* what the JSR pushed, resuming at $0303 with SP as it was before the JSR.
C25_StackConfined ==
  (obs.op = "Step" /\ obs.pre.cpu.PC \in DOMAIN JsrCode
     /\ Rd(obs.pre.cpu.RAM, ProgramBase) = 32) =>
    /\ \A a \in (DOMAIN cpu.RAM) \ (DOMAIN JsrCode) :
          a >= StackBase /\ a < StackBase + 256
    /\ obs.pre.cpu.PC = ProgramBase
         => cpu.PC = ProgramBase + 16 /\ cpu.SP = Byte(obs.pre.cpu.SP + 254)
    /\ obs.pre.cpu.PC = ProgramBase + 16
         => cpu.PC = ProgramBase + 3 /\ cpu.SP = Byte(obs.pre.cpu.SP + 2)

\* the JSR ran with SP = 0 and left the low byte of the return address at
\* $00FF; the RTS, with SP = $FE, popped $01FF and $0200 and resumed at $0001
C25_ReturnAddressLost ==
  /\ obs.op = "Step" /\ obs.n = 2
  /\ obs.pre.cpu.PC = ProgramBase + 16 /\ obs.pre.cpu.SP = 254
  /\ Rd(cpu.RAM, 255) = 2 /\ Rd(cpu.RAM, 256) = 3
  /\ cpu.PC = 1 /\ cpu.SP = 0

\* the 16-bit value the pointer at p holds: low byte mem[p], high byte
\* mem[p + 1], or mem[p & $FF00] when the low byte of p is $FF
PointerValue(mem, p) ==
  Rd(mem, p) + 256 * Rd(mem, IF p % 256 = 255 THEN p - 255 ELSE p + 1)

\* C26: JMP ($6C) with pointer p loads PC from mem[p] and mem[p + 1], or
\* from mem[p] and mem[p & $FF00] when the low byte of p is $FF; ($zp,X)
\* and ($zp),Y read their zero-page pointer with the same wrap, at
\* (zp + X) mod 256 and at zp, and ($zp),Y then adds Y.
C26_IndirectPageBug ==
  (obs.op = "Step" /\ obs.n = 1 /\ obs.pre.cpu.PC = ProgramBase
     /\ Rd(obs.pre.cpu.RAM, ProgramBase) \in IndirectOpcodes) =>
    LET c == obs.pre.cpu
        op == Rd(c.RAM, ProgramBase)
        lo == Rd(c.RAM, ProgramBase + 1)
        hi == Rd(c.RAM, ProgramBase + 2)
    IN /\ op = 108 =>
            /\ cpu.PC = PointerValue(c.RAM, lo + 256 * hi)
            /\ cpu.RAM = c.RAM
       /\ op = 129 =>
            cpu.RAM = Wr(c.RAM, PointerValue(c.RAM, Byte(lo + c.X)), c.A)
       /\ op = 145 =>
            cpu.RAM = Wr(c.RAM, Word(PointerValue(c.RAM, lo) + c.Y), c.A)

\* STA ($FE,X) with X = 1 has read its pointer at $FF and $00, not $0100,
\* and stored A at $0634
C26_Witness ==
  /\ obs.op = "Step" /\ obs.n = 1 /\ obs.pre.cpu.PC = ProgramBase
  /\ Rd(obs.pre.cpu.RAM, ProgramBase) = 129
  /\ Rd(obs.pre.cpu.RAM, ProgramBase + 1) = 254 /\ obs.pre.cpu.X = 1
  /\ Rd(obs.pre.cpu.RAM, 255) = 52 /\ Rd(obs.pre.cpu.RAM, 0) = 6
  /\ Rd(obs.pre.cpu.RAM, 256) = 5
  /\ Rd(cpu.RAM, 1588) = 119 /\ Rd(cpu.RAM, 1332) = 0

-----------------------------------------------------------------------------
(* SpecALU: ADC #M and SBC #M run by one Step from every accumulator, every *)
(* operand and both carries.  Beside the SBC the same console runs ADC on  *)
(* the complemented operand, and the registers it ends with are recorded.  *)

\* the console with the two-byte instruction at ProgramBase
ALUConsole(op, a, m, carry) ==
  [PowerOn EXCEPT !.cpu.PC = ProgramBase, !.cpu.A = a, !.cpu.flagCarry = carry,
                  !.cpu.RAM = (ProgramBase :> op) @@ (ProgramBase + 1 :> m)]

InitALU ==
  \E a \in Bytes, m \in Bytes, carry \in BOOLEAN :
     /\ cpu = ALUConsole(0, a, m, carry).cpu
     /\ ppu = PowerOn.ppu
     /\ m1 = PowerOn.m1
     /\ m4 = PowerOn.m4
     /\ nrom = PowerOn.nrom
     /\ unrom = PowerOn.unrom
     /\ cart = PowerOn.cart
     /\ joy = PowerOn.joy
     /\ exit = PowerOn.exit
     /\ obs = [op |-> "new", A |-> a, M |-> m, C |-> carry, twin |-> 0]

\* ADC #M: opcode $69
AdcStep ==
  /\ obs.op = "new"
  /\ \E r \in {Step(ALUConsole(105, obs.A, obs.M, obs.C))} :
        /\ Becomes(r.w)
        /\ obs' = [obs EXCEPT !.op = "adc"]

\* SBC #M: opcode $E9; twin is ADC #(M XOR $FF) from the same registers
SbcStep ==
  /\ obs.op = "new"
  /\ \E r \in {Step(ALUConsole(233, obs.A, obs.M, obs.C))} :
        /\ Becomes(r.w)
        /\ obs' = [obs EXCEPT !.op = "sbc",
                     !.twin = Registers(Step(ALUConsole(105, obs.A, 255 - obs.M,
                                                        obs.C)).w.cpu)]

NextALU == AdcStep \/ SbcStep

SpecALU == InitALU /\ [][NextALU]_vars

CarryIn == IF obs.C THEN 1 ELSE 0

\* C27: ADC yields A' = (A+M+C) mod 256, C' = (A+M+C > $FF) and
\* V' = ((A^A') & (M^A') & $80) != 0; SBC yields A' = (A-M-(1-C)) mod 256
\* and C' = (A-M-(1-C) >= 0), and the A', C', V', Z and N that ADC yields
\* for the operand M XOR $FF with the same carry-in.
C27_ALUReference ==
  /\ obs.op = "adc" =>
       /\ cpu.A = (obs.A + obs.M + CarryIn) % 256
       /\ cpu.flagCarry = (obs.A + obs.M + CarryIn > 255)
       /\ cpu.flagOverflow =
            (BitAnd(BitAnd(BitXor(obs.A, cpu.A), BitXor(obs.M, cpu.A)), 128) # 0)
  /\ obs.op = "sbc" =>
       /\ cpu.A = (obs.A - obs.M - (1 - CarryIn) + 256) % 256
       /\ cpu.flagCarry = (obs.A - obs.M - (1 - CarryIn) >= 0)
       /\ Registers(cpu) = obs.twin

\* $50 - $B0 with the carry set: A' = $A0, borrow (C' clear), overflow set
C27_Witness ==
  /\ obs.op = "sbc" /\ obs.A = 80 /\ obs.M = 176 /\ obs.C
  /\ cpu.A = 160 /\ ~cpu.flagCarry /\ cpu.flagOverflow /\ cpu.flagSign
  /\ ~cpu.flagZero

-----------------------------------------------------------------------------
(* SpecNMI: PPU.Step called on a console whose PPU stands at scanline 241  *)
(* tick 0, as after NewConsole, with $2000 written so that NMI-on-VBlank   *)
(* is enabled or not, and the CPU anywhere in its program.                 *)

MaxNMITicks == 2

NMIPCs == {ProgramBase, 32776, 32782, 65535}

\* the stack pointers at which three pushes stay above $0100
NMIStackPointers == 2..255

InitNMI ==
  \E pc \in NMIPCs, sp \in NMIStackPointers, i \in BOOLEAN, ctrl \in {0, 128} :
     \E w \in {write(PowerOn, 8192, ctrl).w} :
        /\ cpu = [w.cpu EXCEPT !.PC = pc, !.SP = sp, !.flagInterruptDisable = i]
        /\ ppu = w.ppu
        /\ m1 = w.m1
        /\ m4 = w.m4
        /\ nrom = w.nrom
        /\ unrom = w.unrom
        /\ cart = w.cart
        /\ joy = w.joy
        /\ exit = w.exit
        /\ obs = [op |-> "new", pre |-> 0, n |-> 0]

\* one call of PPU.Step
NMITick ==
  /\ obs.n < MaxNMITicks
  /\ \E r \in {PPUStep(World)} :
        /\ Becomes(r.w)
        /\ obs' = [op |-> "PPUStep", pre |-> World, n |-> obs.n + 1]

NextNMI == NMITick

SpecNMI == InitNMI /\ [][NextNMI]_vars

\* the PPU.Step observed took the PPU to scanline 241 tick 1 with
\* NMI-on-VBlank enabled
NMIRaised ==
  /\ obs.op = "PPUStep"
  /\ obs.pre.ppu.Scanline = 241 /\ obs.pre.ppu.Tick = 0
  /\ obs.pre.ppu.flagNMIOnVBlank

\* the CPU has entered the NMI handler: PC and P pushed, I set, PC from $FFFA
NMIEntry ==
  LET c == obs.pre.cpu
  IN /\ cpu.SP = c.SP - 3
     /\ Rd(cpu.RAM, StackBase + c.SP) = c.PC \div 256
     /\ Rd(cpu.RAM, StackBase + c.SP - 1) = c.PC % 256
     /\ Rd(cpu.RAM, StackBase + c.SP - 2) = P(c)
     /\ cpu.flagInterruptDisable
     /\ cpu.PC = PRGByte(cart, 1, 16378) + 256 * PRGByte(cart, 1, 16379)

\* C28: when the PPU reaches scanline 241 tick 1 with NMI-on-VBlank enabled,
\* whatever the interrupt-disable flag is, the CPU pushes PC and P, sets I,
\* loads PC from the vector at $FFFA, and its NumCycles is 7 larger than it
\* is when no NMI is taken (a PPU.Step leaves NumCycles as it was).
C28_NMICostsSevenCycles ==
  /\ NMIRaised => (NMIEntry /\ cpu.NumCycles = obs.pre.cpu.NumCycles + 7)
  /\ (obs.op = "PPUStep" /\ ~NMIRaised) => cpu = obs.pre.cpu

\* an NMI was taken with interrupt-disable set: the handler is entered and
\* NumCycles is what it was before
C28_NMIFreeOfCharge ==
  /\ NMIRaised /\ obs.pre.cpu.flagInterruptDisable
  /\ NMIEntry /\ cpu.PC = 32832
  /\ cpu.NumCycles = obs.pre.cpu.NumCycles

-----------------------------------------------------------------------------
(* SpecStatus: the PPU ticked from scanline 241 tick 0 through the VBlank  *)
(* and past the pre-render line's tick 1, with the CPU reading $2002 and   *)
(* writing $2005 at any point, and the sprite flags as the last frame left *)
(* them.                                                                   *)

\* 20 scanlines of 341 ticks lead from (241, 0) to (261, 0), and four more
\* ticks past (261, 1)
MaxStatusTicks == 6824

\* the part of the PPU the status register is about
StatusView(p, clean) ==
  [vblank |-> p.flagVBlankOutstanding, sprite0 |-> p.flagSprite0Hit,
   overflow |-> p.flagScanlineSpritesMax, w |-> p.w,
   Scanline |-> p.Scanline, Tick |-> p.Tick, clean |-> clean]

InitStatus ==
  \E s0 \in BOOLEAN, ovf \in BOOLEAN :
     /\ cpu = PowerOn.cpu
     /\ ppu = [PowerOn.ppu EXCEPT !.flagSprite0Hit = s0,
                                  !.flagScanlineSpritesMax = ovf]
     /\ m1 = PowerOn.m1
     /\ m4 = PowerOn.m4
     /\ nrom = PowerOn.nrom
     /\ unrom = PowerOn.unrom
     /\ cart = PowerOn.cart
     /\ joy = PowerOn.joy
     /\ exit = PowerOn.exit
     /\ obs = [op |-> "new", result |-> 0, clean |-> FALSE,
               pre |-> StatusView(PowerOn.ppu, FALSE)]

\* one call of PPU.Step; clean says that $2002 was read and scanline 241
\* tick 1 was not reached since
StatusTick ==
  /\ ppu.numCycles < MaxStatusTicks
  /\ \E r \in {PPUStep(World)} :
        /\ Becomes(r.w)
        /\ obs' = [op |-> "PPUStep", result |-> 0,
                   clean |-> obs.clean
                               /\ ~(r.w.ppu.Scanline = 241 /\ r.w.ppu.Tick = 1),
                   pre |-> StatusView(ppu, obs.clean)]

\* the CPU reads $2002
StatusRead ==
  \E r \in {read(World, 8194)} :
     /\ Becomes(r.w)
     /\ obs' = [op |-> "read", result |-> r.result, clean |-> TRUE,
                pre |-> StatusView(ppu, obs.clean)]

\* the CPU writes $2005, once the toggle is 0
StatusScrollWrite ==
  /\ ppu.w = 0
  /\ \E r \in {write(World, 8197, 0)} :
        /\ Becomes(r.w)
        /\ obs' = [op |-> "write", result |-> 0, clean |-> obs.clean,
                   pre |-> StatusView(ppu, obs.clean)]

NextStatus == StatusTick \/ StatusRead \/ StatusScrollWrite

SpecStatus == InitStatus /\ [][NextStatus]_vars

\* C29: the VBlank flag becomes set exactly at scanline 241 tick 1 and is
\* cleared only by a read of $2002 or at scanline 261 tick 1; the read
\* returns it in bit 7, sprite-0 hit in bit 6 and sprite overflow in bit 5,
\* resets the toggle w and leaves the two sprite flags as they were; a
\* second read with no scanline 241 tick 1 since the first has bit 7 clear.
C29_VBlankLifecycle ==
  /\ obs.op = "PPUStep" =>
       ppu.flagVBlankOutstanding =
         (IF ppu.Scanline = 241 /\ ppu.Tick = 1 THEN TRUE
          ELSE IF ppu.Scanline = 261 /\ ppu.Tick = 1 THEN FALSE
          ELSE obs.pre.vblank)
  /\ obs.op = "write" => ppu.flagVBlankOutstanding = obs.pre.vblank
  /\ obs.op = "read" =>
       /\ obs.result = (IF obs.pre.vblank THEN 128 ELSE 0)
                       + (IF obs.pre.sprite0 THEN 64 ELSE 0)
                       + (IF obs.pre.overflow THEN 32 ELSE 0)
       /\ ~ppu.flagVBlankOutstanding
       /\ ppu.w = 0
       /\ ppu.flagSprite0Hit = obs.pre.sprite0
       /\ ppu.flagScanlineSpritesMax = obs.pre.overflow
       /\ obs.pre.clean => obs.result < 128

\* a read during the VBlank, with the toggle at 1 and sprite-0 hit set,
\* returned $C0, cleared the flag and the toggle and kept sprite-0 hit
C29_Witness ==
  /\ obs.op = "read" /\ obs.result = 192
  /\ obs.pre.Scanline = 250 /\ obs.pre.w = 1 /\ ~obs.pre.clean
  /\ ~ppu.flagVBlankOutstanding /\ ppu.w = 0 /\ ppu.flagSprite0Hit

-----------------------------------------------------------------------------
(* SpecRegs: the CPU writing $2000, $2005 and $2006 and reading $2002 on a *)
(* powered-on console, in any order.                                       *)

MaxRegOps == 4

RegValues == {0, 63, 165, 255}

\* the ports written: $2000, $2005, $2006
RegPorts == {8192, 8197, 8198}

\* the scroll registers of the PPU
RegView(p) == [t |-> p.t, v |-> p.v, x |-> p.x, w |-> p.w]

InitRegs ==
  /\ cpu = PowerOn.cpu
  /\ ppu = PowerOn.ppu
  /\ m1 = PowerOn.m1
  /\ m4 = PowerOn.m4
  /\ nrom = PowerOn.nrom
  /\ unrom = PowerOn.unrom
  /\ cart = PowerOn.cart
  /\ joy = PowerOn.joy
  /\ exit = PowerOn.exit
  /\ obs = [op |-> "new", port |-> 0, value |-> 0, n |-> 0,
            pre |-> RegView(PowerOn.ppu), phase |-> 0, hi |-> 0]

\* the CPU writes d to a port; phase counts the $2006 writes made since a
\* $2002 read with nothing else in between (3: no such read), hi is the first
RegWrite ==
  /\ obs.n < MaxRegOps
  /\ \E port \in RegPorts, d \in RegValues :
       \E r \in {write(World, port, d)} :
          /\ Becomes(r.w)
          /\ obs' = [op |-> "write", port |-> port, value |-> d, n |-> obs.n + 1,
                     pre |-> RegView(ppu),
                     phase |-> IF port = 8198 /\ obs.op # "new" /\ obs.phase < 2
                               THEN obs.phase + 1 ELSE 3,
                     hi |-> IF port = 8198 /\ obs.phase = 0 THEN d ELSE obs.hi]

\* the CPU reads $2002
RegStatusRead ==
  /\ obs.n < MaxRegOps
  /\ \E r \in {read(World, 8194)} :
        /\ Becomes(r.w)
        /\ obs' = [op |-> "read", port |-> 8194, value |-> r.result,
                   n |-> obs.n + 1, pre |-> RegView(ppu), phase |-> 0, hi |-> 0]

NextRegs == RegWrite \/ RegStatusRead

SpecRegs == InitRegs /\ [][NextRegs]_vars

\* C30: every write to $2005 or $2006 flips the one toggle w, a $2002 read
\* sets it to 0 and a $2000 write leaves it; a $2006 write of d with w = 0
\* sets t[13:8] = d & $3F and t[14] = 0 and leaves v, with w = 1 it sets
\* t[7:0] = d and then v = t; after a $2002 read, hi then lo written to
\* $2006 leave v = ((hi & $3F) << 8) | lo; t has no bit above bit 14.
C30_WriteToggle ==
  /\ ppu.t < 32768
  /\ ppu.w \in {0, 1}
  /\ obs.op = "read" => ppu.w = 0
  /\ obs.op = "write" =>
       /\ obs.port \in {8197, 8198} => ppu.w = 1 - obs.pre.w
       /\ obs.port = 8192 => ppu.w = obs.pre.w
       /\ (obs.port = 8198 /\ obs.pre.w = 0) =>
            /\ (ppu.t \div 256) % 64 = obs.value % 64
            /\ Bit(ppu.t, 14) = 0
            /\ ppu.t % 256 = obs.pre.t % 256
            /\ ppu.v = obs.pre.v
       /\ (obs.port = 8198 /\ obs.pre.w = 1) =>
            /\ ppu.t = (obs.pre.t \div 256) * 256 + obs.value
            /\ ppu.v = ppu.t
       /\ obs.phase = 2 => ppu.v = (obs.hi % 64) * 256 + obs.value

\* after a $2005 write and a $2002 read, $FF then $A5 written to $2006
\* left v = $3FA5
C30_Witness ==
  /\ obs.op = "write" /\ obs.phase = 2 /\ obs.n = 4
  /\ obs.hi = 255 /\ obs.value = 165
  /\ ppu.v = 16293 /\ ppu.t = 16293 /\ ppu.w = 0 /\ ppu.x = 7

-----------------------------------------------------------------------------
(* SpecVRAM: the CPU reading $2007 repeatedly, with the PPU's v anywhere   *)
(* in the name tables, their mirror below $3F00 or the palette, either     *)
(* increment, and PPU RAM holding a different byte in every cell.          *)

MaxDataReads == 3

VRAMStarts ==
  {8192, 8222, 9215, 12288, 16095, 16096, 16100, 16126, 16127, 16128, 16144,
   16159, 16200, 32480}

\* the byte the program left in PPU RAM cell a
VRAMByte(a) == (a % 251) + 1

\* the cells the reads can touch: up to three steps of 1 or 32 from a start
VRAMCells ==
  {mapAddress(PowerOn.cart, a + d) : a \in VRAMStarts, d \in {0, 1, 2, 3, 32, 64, 96}}

InitVRAM ==
  \E a \in VRAMStarts, by32 \in BOOLEAN, latch \in {0, 153} :
     /\ cpu = PowerOn.cpu
     /\ ppu = [PowerOn.ppu EXCEPT !.v = a, !.flagIncrementBy32 = by32,
                                  !.readBuffer = latch,
                                  !.ram = [c \in VRAMCells |-> VRAMByte(c)]]
     /\ m1 = PowerOn.m1
     /\ m4 = PowerOn.m4
     /\ nrom = PowerOn.nrom
     /\ unrom = PowerOn.unrom
     /\ cart = PowerOn.cart
     /\ joy = PowerOn.joy
     /\ exit = PowerOn.exit
     /\ obs = [op |-> "new", result |-> 0, n |-> 0, pre |-> 0, before |-> 0]

\* the CPU reads $2007; pre is the PPU before this read and before the PPU
\* before the read that preceded it
DataRead ==
  /\ obs.n < MaxDataReads
  /\ \E r \in {read(World, 8199)} :
        /\ Becomes(r.w)
        /\ obs' = [op |-> "read", result |-> r.result, n |-> obs.n + 1,
                   pre |-> ppu, before |-> obs.pre]

NextVRAM == DataRead

SpecVRAM == InitVRAM /\ [][NextVRAM]_vars

\* the byte of PPU memory at address a (name tables and palette)
ByteAt(a) == Rd(ppu.ram, mapAddress(cart, a))

\* v masked to 14 bits is below $3F00
Buffered(v) == v % 16384 < 16128

\* one $2007 read: the latch below $3F00 and the byte at v from $3F00 on;
\* the byte at v goes to the latch and v advances by 1 or 32
DataReadRule ==
  obs.op = "read" =>
    /\ obs.result = (IF Buffered(obs.pre.v) THEN obs.pre.readBuffer
                     ELSE ByteAt(obs.pre.v))
    /\ ppu.readBuffer = ByteAt(obs.pre.v)
    /\ ppu.v = Word(obs.pre.v + (IF obs.pre.flagIncrementBy32 THEN 32 ELSE 1))
    /\ ppu.ram = obs.pre.ram

\* C31 as stated: the rule of one read, and of two consecutive reads the
\* first of which is at an address a < $3EFF the second returns the byte at a.
C31_BufferedReads ==
  /\ DataReadRule
  /\ (obs.op = "read" /\ obs.n >= 2 /\ obs.before.v % 16384 < 16127)
       => obs.result = ByteAt(obs.before.v)

\* C31: the rule of one read, and of two consecutive reads the second returns
\* the byte at the address of the first when the second is itself below
\* $3F00, that is when a + 1, or a + 32 with the increment flag set, is
\* below $3F00.
C31_BufferedReadsBelowPalette ==
  /\ DataReadRule
  /\ (obs.op = "read" /\ obs.n >= 2 /\ Buffered(obs.pre.v))
       => obs.result = ByteAt(obs.before.v)
  /\ (obs.op = "read" /\ obs.n >= 2 /\ ~Buffered(obs.pre.v))
       => obs.result = ByteAt(obs.pre.v)

\* two reads from $3EDF by 32: the second, at $3EFF, returned the byte at
\* $3EDF
C31_Witness ==
  /\ obs.op = "read" /\ obs.n = 2
  /\ obs.before.v = 16095 /\ obs.pre.v = 16127 /\ obs.pre.flagIncrementBy32
  /\ obs.result = VRAMByte(16095)
  /\ ppu.readBuffer = VRAMByte(16127)

\* two reads from $3EE0 by 32: the second, at $3F00, returned the palette
\* byte at $3F00 and not the byte at $3EE0
C31_SecondReadInPalette ==
  /\ obs.op = "read" /\ obs.n = 2
  /\ obs.before.v = 16096 /\ obs.pre.v = 16128
  /\ obs.result = VRAMByte(16128)
  /\ obs.result # ByteAt(16096)

-----------------------------------------------------------------------------
(* SpecMirror: the PPU writing name-table bytes on an MMC1 console in each *)
(* mirroring mode, while the CPU completes a write of the MMC1 control     *)
(* register.  After each PPU write the four name tables are read back at   *)
(* the offset written.                                                     *)

MaxMirrorOps == 3

MirrorModes == {"horizontal", "vertical", "singleLow", "singleHigh", "fourScreen"}

MirrorOffsets == {0, 1023}

\* the console in the given mode after the program wrote the four low bits
\* b0, b1, 0, 0 of a control value to $8000
ControlPending(mode, b0, b1) ==
  write(write(write(write([PowerOnMMC1 EXCEPT !.cart.Mirror = mode],
                          32768, b0).w, 32768, b1).w, 32768, 0).w, 32768, 0).w

InitMirror ==
  \E mode \in MirrorModes, b0 \in {0, 1}, b1 \in {0, 1} :
     \E w \in {ControlPending(mode, b0, b1)} :
        /\ cpu = w.cpu
        /\ ppu = w.ppu
        /\ m1 = w.m1
        /\ m4 = w.m4
        /\ nrom = w.nrom
        /\ unrom = w.unrom
        /\ cart = w.cart
        /\ joy = w.joy
        /\ exit = w.exit
        /\ obs = [op |-> "new", n |-> 0, table |-> 0, offset |-> 0, value |-> 0,
                  seen |-> <<0, 0, 0, 0>>, mode |-> mode, low |-> b0 + 2 * b1,
                  changed |-> FALSE]

\* PPU.write of a byte not written before at offset k of name table tb, and
\* PPU.read of the four tables at k right after it
MirrorWrite ==
  /\ obs.n < MaxMirrorOps
  /\ \E tb \in 0..3, k \in MirrorOffsets :
       \E w \in {ppuWrite(World, 8192 + 1024 * tb + k, obs.n + 1)} :
          /\ Becomes(w)
          /\ obs' = [obs EXCEPT !.op = "write", !.n = @ + 1, !.table = tb,
                                !.offset = k, !.value = obs.n + 1,
                                !.seen = [i \in 1..4 |->
                                            ppuRead(w, 8192 + 1024 * (i - 1) + k)],
                                !.mode = cart.Mirror]

\* the CPU writes the next bit of the control value to $8000
MirrorControl ==
  /\ obs.n < MaxMirrorOps
  /\ \E r \in {write(World, 32768, 0)} :
        /\ Becomes(r.w)
        /\ obs' = [obs EXCEPT !.op = "control", !.n = @ + 1, !.mode = cart.Mirror,
                              !.changed = @ \/ m1.shiftRegisterCount = 4]

NextMirror == MirrorWrite \/ MirrorControl

SpecMirror == InitMirror /\ [][NextMirror]_vars

\* name tables a and b (0..3) are one table under the mode
Aliased(mode, a, b) ==
  CASE mode = "horizontal" -> a \div 2 = b \div 2
    [] mode = "vertical" -> a % 2 = b % 2
    [] mode \in {"singleLow", "singleHigh"} -> TRUE
    [] OTHER -> a = b

\* the mode the control value with the two low bits v selects
ModeOf(v) ==
  CASE v = 0 -> "singleLow" [] v = 1 -> "singleHigh" [] v = 2 -> "vertical"
    [] OTHER -> "horizontal"

\* C32: a byte written at offset k of a name table is read back at offset
\* k of exactly the tables the current mirroring mode aliases with it
\* (horizontal: $2000 with $2400 and $2800 with $2C00; vertical: $2000 with
\* $2800 and $2400 with $2C00; single: all four; four-screen: none), the
\* mode being the one the last completed control write selected.
C32_NameTableFolding ==
  /\ obs.op = "write" =>
       \A i \in 1..4 :
          (obs.seen[i] = obs.value) = Aliased(cart.Mirror, obs.table, i - 1)
  /\ (obs.op = "control" /\ obs.n = 1) => cart.Mirror = ModeOf(obs.low)
  /\ cart.Mirror = (IF obs.changed THEN ModeOf(obs.low) ELSE obs.mode)

\* the control write turned horizontal into vertical, and the PPU write
\* that followed it, at $2000, is read back at $2800 and not at $2400
C32_Witness ==
  /\ obs.op = "write" /\ obs.n = 2 /\ obs.changed
  /\ obs.low = 2 /\ cart.Mirror = "vertical"
  /\ obs.table = 0 /\ obs.offset = 1023
  /\ obs.seen = <<2, 0, 2, 0>>

-----------------------------------------------------------------------------
(* SpecDMA: one Step running STA abs with A = p, the operand being $4014   *)
(* or another write address, RAM holding a different byte in every cell    *)
(* and the sprite address register anywhere.                               *)

\* the source pages: RAM, the RAM mirror at $0800, and the two ends of ROM
DMAPages == {0, 2, 7, 8, 31, 128, 255}

DMATargets == {512, 8195, 16403, 16404, 16405, 16406, 24576, 32768}

DMASpriteAddresses == {0, 5, 255}

\* the byte the program left in RAM cell a
DMAByte(a) == (a * 7 + a \div 256 + 1) % 256

\* RAM with STA target at ProgramBase
DMARAM(target) ==
  [a \in 0..2047 |->
     IF a = ProgramBase THEN 141
     ELSE IF a = ProgramBase + 1 THEN target % 256
     ELSE IF a = ProgramBase + 2 THEN target \div 256
     ELSE DMAByte(a)]

InitDMA ==
  \E page \in DMAPages, target \in DMATargets, spr \in DMASpriteAddresses :
     /\ cpu = [PowerOn.cpu EXCEPT !.PC = ProgramBase, !.A = page,
                                  !.RAM = DMARAM(target)]
     /\ ppu = [PowerOn.ppu EXCEPT !.sprIOAddress = spr]
     /\ m1 = PowerOn.m1
     /\ m4 = PowerOn.m4
     /\ nrom = PowerOn.nrom
     /\ unrom = PowerOn.unrom
     /\ cart = PowerOn.cart
     /\ joy = PowerOn.joy
     /\ exit = PowerOn.exit
     /\ obs = [op |-> "new", target |-> target, pre |-> 0]

\* one call of CPU.Step
DMAStep ==
  /\ obs.op = "new"
  /\ \E r \in {Step(World)} :
        /\ Becomes(r.w)
        /\ obs' = [op |-> "Step", target |-> obs.target, pre |-> World]

NextDMA == DMAStep

SpecDMA == InitDMA /\ [][NextDMA]_vars

\* C33: a write of p to $4014 leaves sprRAM[i] equal to the byte read at
\* p * $100 + i for every i in 0..255, whatever the sprite address was, and
\* STA abs costs its 4 base cycles plus 512; a write to any other address
\* costs the 4 base cycles alone and leaves sprite RAM alone unless it is
\* the sprite data port.
C33_OAMDMA ==
  obs.op = "Step" =>
    /\ obs.target = 16404 =>
         /\ \A i \in 0..255 :
               Rd(ppu.sprRAM, i) = read(obs.pre, obs.pre.cpu.A * 256 + i).result
         /\ cpu.NumCycles = obs.pre.cpu.NumCycles + 4 + 512
    /\ obs.target # 16404 =>
         /\ cpu.NumCycles = obs.pre.cpu.NumCycles + 4
         /\ ppu.sprRAM = obs.pre.ppu.sprRAM

\* the DMA from page 2, started with the sprite address at 5, filled sprite
\* RAM from index 0 with the bytes of $0200..$02FF
C33_Witness ==
  /\ obs.op = "Step" /\ obs.target = 16404
  /\ obs.pre.cpu.A = 2 /\ obs.pre.ppu.sprIOAddress = 5
  /\ Rd(ppu.sprRAM, 0) = DMAByte(512) /\ Rd(ppu.sprRAM, 255) = DMAByte(767)
  /\ ppu.sprIOAddress = 0
  /\ cpu.NumCycles = obs.pre.cpu.NumCycles + 516

\* C34 (SpecPPU): a frame with an odd Frame counter whose pre-render line ran
\* with background rendering enabled takes 341 * 262 - 1 calls of PPU.Step,
\* and a frame whose pre-render line ran with background rendering disabled
\* takes 341 * 262, odd or even.
C34_SkipOnlyWhenBackground ==
  obs.wraps >= 2 =>
    /\ (obs.lastFrame % 2 = 1 /\ obs.lastFrameBackground)
         => obs.lastFrameLen = 341 * 262 - 1
    /\ ~obs.lastFrameBackground => obs.lastFrameLen = 341 * 262

\* frame 1 ran its pre-render line with background and sprites disabled and
\* ended one tick early
C34_SkipWithRenderingOff ==
  /\ obs.wraps >= 2 /\ obs.lastFrame = 1
  /\ ~obs.lastFrameBackground /\ ~obs.lastFrameRendering
  /\ obs.lastFrameLen = 341 * 262 - 1
  /\ ppu.Scanline = 0 /\ ppu.Tick = 0

-----------------------------------------------------------------------------
(* SpecScanline: the PPU ticked through whole frames under one mask, on an *)
(* MMC3 whose IRQ latch holds $FF, so that the scanline counter runs       *)
(* through 0, 255, 254, ... and every NextScanline call moves it by one.   *)

MaxScanlineFrames == 3

\* the console after the program wrote $FF to $C000 and the mask to $2001
ScanlineConsole(mask) == write(write(PowerOn, 49152, 255).w, 8193, mask).w

InitScanline ==
  \E mask \in MaskValues :
     \E w \in {ScanlineConsole(mask)} :
        /\ cpu = w.cpu
        /\ ppu = w.ppu
        /\ m1 = w.m1
        /\ m4 = w.m4
        /\ nrom = w.nrom
        /\ unrom = w.unrom
        /\ cart = w.cart
        /\ joy = w.joy
        /\ exit = w.exit
        /\ obs = [op |-> "new", made |-> 0, calls |-> 0, lastFrame |-> 0,
                  lastCalls |-> 0, wraps |-> 0]

\* one call of PPU.Step; made is the number of NextScanline calls it made,
\* read off the scanline counter, calls their number in the current frame
ScanlineTick ==
  /\ ppu.Frame < MaxScanlineFrames
  /\ \E r \in {PPUStep(World)} :
       \E made \in {(m4.irqCounter - r.w.m4.irqCounter + 256) % 256} :
          /\ Becomes(r.w)
          /\ obs' = IF r.w.ppu.Frame # ppu.Frame
                    THEN [op |-> "PPUStep", made |-> made, calls |-> 0,
                          lastFrame |-> ppu.Frame, lastCalls |-> obs.calls + made,
                          wraps |-> obs.wraps + 1]
                    ELSE [obs EXCEPT !.op = "PPUStep", !.made = made,
                                     !.calls = @ + made]

NextScanlineFrames == ScanlineTick

SpecScanline == InitScanline /\ [][NextScanlineFrames]_vars

\* C35: with background or sprites enabled a PPU.Step calls NextScanline,
\* once, exactly when it reaches tick 260 of a scanline in 0..239 or of
\* scanline 261: 241 calls in every whole frame, odd or even; with both
\* disabled it never calls it.
C35_ScanlineNotification ==
  /\ obs.op = "PPUStep" =>
       obs.made = (IF (ppu.flagShowBackground \/ ppu.flagShowSprites)
                      /\ ppu.Tick = 260
                      /\ (ppu.Scanline <= 239 \/ ppu.Scanline = 261)
                   THEN 1 ELSE 0)
  /\ obs.wraps >= 2 =>
       obs.lastCalls = (IF ppu.flagShowBackground \/ ppu.flagShowSprites
                        THEN 241 ELSE 0)

\* the odd frame 1, with sprites only enabled, has ended after 241 calls
C35_Witness ==
  /\ obs.wraps = 2 /\ obs.lastFrame = 1 /\ obs.lastCalls = 241
  /\ ~ppu.flagShowBackground /\ ppu.flagShowSprites
  /\ ppu.Scanline = 0 /\ ppu.Tick = 0
  /\ m4.irqCounter = 256 - (1 + 241)

-----------------------------------------------------------------------------
(* SpecPRG: the CPU writing the MMC3 bank-select and bank-data registers   *)
(* of a cartridge with four 8 KiB PRG banks, in any order.  The registers  *)
(* written are followed beside the mapper.                                 *)

MaxBankWrites == 4

\* bank select: R0, R6, R7, and R6, R7 with the PRG-swap bit
BankSelectValues == {0, 6, 7, 70, 71}

\* bank data: the numbers of the four 8 KiB banks
BankDataValues == 0..3

InitPRG ==
  /\ cpu = PowerOn.cpu
  /\ ppu = PowerOn.ppu
  /\ m1 = PowerOn.m1
  /\ m4 = PowerOn.m4
  /\ nrom = PowerOn.nrom
  /\ unrom = PowerOn.unrom
  /\ cart = PowerOn.cart
  /\ joy = PowerOn.joy
  /\ exit = PowerOn.exit
  /\ obs = [op |-> "new", n |-> 0, sel |-> 0, swap |-> FALSE,
            R |-> [i \in 0..7 |-> 0]]

\* a CPU write to $8000
BankSelect ==
  /\ obs.n < MaxBankWrites
  /\ \E value \in BankSelectValues :
       \E r \in {write(World, 32768, value)} :
          /\ Becomes(r.w)
          /\ obs' = [obs EXCEPT !.op = "select", !.n = @ + 1,
                                !.sel = value % 8, !.swap = value >= 64]

\* a CPU write to $8001
BankData ==
  /\ obs.n < MaxBankWrites
  /\ \E value \in BankDataValues :
       \E r \in {write(World, 32769, value)} :
          /\ Becomes(r.w)
          /\ obs' = [obs EXCEPT !.op = "data", !.n = @ + 1, !.R[obs.sel] = value]

NextPRG == BankSelect \/ BankData

SpecPRG == InitPRG /\ [][NextPRG]_vars

\* the byte at offset i of the 8 KiB bank b of the ROM
PRG8Byte(b, i) == PRGByte(cart, b \div 2, (b % 2) * 8192 + i)

\* the offsets at which the four 8 KiB banks of the ROM differ
PRGProbes == {0, 96, 8186, 8191}

\* the 8 KiB bank the window wdw (0..3) must show
WindowBank(wdw) ==
  LET last == 2 * cart.numPRG - 1
  IN CASE wdw = 0 -> IF obs.swap THEN last - 1 ELSE obs.R[6]
       [] wdw = 1 -> obs.R[7]
       [] wdw = 2 -> IF obs.swap THEN obs.R[6] ELSE last - 1
       [] OTHER -> last

\* C36: CPU reads in the windows $8000, $A000, $C000, $E000 come from the
\* 8 KiB banks R6, R7, second-to-last, last with the PRG-swap bit clear and
\* from second-to-last, R7, R6, last with it set, from construction on.
C36_PRGWindows ==
  \A wdw \in 0..3, i \in PRGProbes :
     read(World, 32768 + 8192 * wdw + i).result = PRG8Byte(WindowBank(wdw), i)

\* R6 = 1 and R7 = 2 were written and the swap bit set: $8000 shows bank 2,
\* $A000 bank 2, $C000 bank 1, $E000 bank 3
C36_Witness ==
  /\ obs.n = 4 /\ obs.swap /\ obs.R[6] = 1 /\ obs.R[7] = 2
  /\ read(World, 32768 + 96).result = 2
  /\ read(World, 40960 + 96).result = 2
  /\ read(World, 49152 + 96).result = 96
  /\ read(World, 49152).result = 0
  /\ read(World, 65530).result = 64

-----------------------------------------------------------------------------
(* SpecCHR: PPU-side writes and reads below $2000 on each of the four      *)
(* mappers, built on a cartridge with one CHR ROM bank and on one with no  *)
(* CHR bank, which gets one bank of CHR RAM.                               *)

MaxPatternOps == 3

CHRCartridges ==
  {NewCartridge(2, n, mapper) : n \in {0, 1}, mapper \in {0, 1, 2, 4}}

\* the ends of the two 4 KiB pattern tables
PatternAddresses == {0, 4095, 4096, 8191}

PatternValues == {1, 7}

InitCHR ==
  \E c \in CHRCartridges : \E w \in {NewConsole(c)} :
     /\ cpu = w.cpu
     /\ ppu = w.ppu
     /\ m1 = w.m1
     /\ m4 = w.m4
     /\ nrom = w.nrom
     /\ unrom = w.unrom
     /\ cart = w.cart
     /\ joy = w.joy
     /\ exit = w.exit
     /\ obs = [n |-> 0, op |-> "new", address |-> 0, value |-> 0, result |-> 0,
               before |-> w.cart.CHR]

\* PPU.write below $2000; obs.before is the CHR memory before the write
PatternWrite ==
  /\ obs.n < MaxPatternOps
  /\ \E a \in PatternAddresses, v \in PatternValues :
        /\ Becomes(ppuWrite(World, a, v))
        /\ obs' = [n |-> obs.n + 1, op |-> "ppuWrite", address |-> a, value |-> v,
                   result |-> 0, before |-> cart.CHR]

\* PPU.read below $2000
PatternRead ==
  /\ obs.n < MaxPatternOps
  /\ \E a \in PatternAddresses : \E r \in {ppuReadCall(World, a)} :
        /\ Becomes(r.w)
        /\ obs' = [n |-> obs.n + 1, op |-> "ppuRead", address |-> a, value |-> 0,
                   result |-> r.result, before |-> cart.CHR]

NextCHR == PatternWrite \/ PatternRead

SpecCHR == InitCHR /\ [][NextCHR]_vars

\* the CHR bytes that differ from what they were before the last operation
CHRChanged ==
  {a \in DOMAIN cart.CHR \cup DOMAIN obs.before :
     Rd(cart.CHR, a) # Rd(obs.before, a)}

\* C38: on each of the four mappers a PPU-side write below $2000 leaves
\* every CHR byte unchanged when the cartridge was built with a CHR bank
\* (CHR ROM), and stores the value at the addressed byte when it was built
\* with none (CHR RAM).
C38_CHRWritableOnlyAsRAM ==
  obs.op = "ppuWrite" =>
    IF cart.chrRAM
    THEN ppuRead(World, obs.address) = obs.value
    ELSE CHRChanged = {}

\* an MMC1 cartridge built with a CHR ROM bank reads back the byte the PPU
\* wrote over $1FFF
C38_Witness ==
  /\ cart.mapper = 1 /\ ~cart.chrRAM
  /\ obs.op = "ppuWrite" /\ obs.address = 8191 /\ obs.value = 7
  /\ CHRChanged # {}
  /\ ppuRead(World, 8191) = 7

-----------------------------------------------------------------------------
(* SpecStrobe: CPU writes and reads at $4016 and $4017 with both joypads.  *)
(* The window host registers a key callback for Joypads[0] only; a host    *)
(* with two controllers registers one for each.                            *)

\* nothing held, A held, Start held
PadHeldSets == {{}, {"A"}, {"Start"}}

PadValues == {0, 1}

\* the button that Joypad.Read returns at read position k
ButtonAt(j, k) ==
  CASE k = 0 -> j.A
    [] k = 1 -> j.B
    [] k = 2 -> j.Select
    [] k = 3 -> j.Start
    [] k = 4 -> j.Up
    [] k = 5 -> j.Down
    [] k = 6 -> j.Left
    [] OTHER -> j.Right

InitStrobe ==
  /\ cpu = PowerOn.cpu
  /\ ppu = PowerOn.ppu
  /\ m1 = PowerOn.m1
  /\ m4 = PowerOn.m4
  /\ nrom = PowerOn.nrom
  /\ unrom = PowerOn.unrom
  /\ cart = PowerOn.cart
  /\ \E both \in BOOLEAN :
       joy = [Run(PowerOn).joy EXCEPT ![1] = IF both THEN SetReadKeysCallback(@) ELSE @]
  /\ exit = PowerOn.exit
  /\ obs = [op |-> "new", value |-> 0, result |-> 0, since |-> -1, index |-> -1]

\* a CPU write at $4016 or $4017.  obs.since is -2 after a 1 written to
\* $4016, the number of reads of $4017 (modulo 8) made since a 1 and then a
\* 0 were written to $4016 with no other write in between or after, and -1
\* otherwise
PadWrite ==
  \E address \in {16406, 16407}, v \in PadValues, held \in PadHeldSets :
     \E r \in {write(WorldWith(KeysHeld(held)), address, v)} :
        /\ Becomes(r.w)
        /\ obs' = [op |-> IF address = 16406 THEN "write16" ELSE "write17",
                   value |-> v, result |-> 0,
                   since |-> IF address = 16407 THEN -1
                             ELSE IF v = 1 THEN -2
                             ELSE IF obs.since = -2 THEN 0 ELSE -1,
                   index |-> -1]

\* a CPU read at $4016 or $4017; obs.index is obs.since before a read of
\* $4017
PadRead ==
  \E address \in {16406, 16407} :
     \E r \in {read(World, address)} :
        /\ Becomes(r.w)
        /\ obs' = [op |-> IF address = 16406 THEN "read16" ELSE "read17",
                   value |-> 0, result |-> r.result,
                   since |-> IF address = 16407 /\ obs.since >= 0
                             THEN (obs.since + 1) % 8 ELSE obs.since,
                   index |-> IF address = 16407 THEN obs.since ELSE -1]

NextStrobe == PadWrite \/ PadRead

SpecStrobe == InitStrobe /\ [][NextStrobe]_vars

\* C39: a CPU write to $4016 sets the strobe latch and resets the read
\* position of both joypads, and after 1 and then 0 are written to $4016
\* alone the reads of $4017 return the buttons of Joypad[1] in order,
\* starting again from A.
C39_SharedStrobe ==
  /\ obs.op = "write16" =>
       /\ joy[0].i = 0 /\ joy[1].i = 0
       /\ joy[0].strobe = (obs.value = 1) /\ joy[1].strobe = (obs.value = 1)
  /\ (obs.op = "read17" /\ obs.index >= 0) =>
       obs.result = IF ButtonAt(joy[1], obs.index) THEN 1 ELSE 0

\* the second controller holds A and was read three times; after 1 and 0
\* written to $4016 its read position is still 3 and the first read of
\* $4017 returned Start, not A
C39_Witness ==
  /\ joy[1].A /\ ~joy[1].Start
  /\ obs.op = "read17" /\ obs.index = 0 /\ obs.result = 0
  /\ joy[1].i = 4

-----------------------------------------------------------------------------
(* SpecSprites: PPU.Step over a frame with the foreground line buffer that *)
(* loadSprites fills at tick 257, on a UNROM cartridge with CHR RAM whose  *)
(* pattern tables and sprite palette the program has written.              *)

MaxSpriteFrames == 2

\* OAM with the entries of spr (Y, tile, attributes, X) and every other
\* entry at Y = fillY, as a DMA leaves it
OAMWith(fillY, spr) ==
  [a \in 0..255 |->
     IF a \div 4 \in DOMAIN spr THEN spr[a \div 4][(a % 4) + 1]
     ELSE IF a % 4 = 0 THEN fillY ELSE 0]

\* nine overlapping sprites on one line, in entries 2, 7, ..., 42
NineInRow == [i \in {5 * n + 2 : n \in 0..8} |-> <<50, 1, (i \div 5) % 4, 16 + 2 * (i \div 5)>>]

\* nine sprites on the first line, in entries 0..8
NineOnTop == [i \in 0..8 |-> <<0, 1, 0, 8 * i>>]

\* sprite 0 flipped at the right edge, a flipped sprite behind it
EdgeFlipped == (0 :> <<100, 1, 64, 252>>) @@ (1 :> <<104, 1, 160 + 1, 250>>)

NoSprites == [i \in {} |-> <<0, 0, 0, 0>>]

SpriteTables ==
  {OAMWith(255, NineInRow), OAMWith(255, NineOnTop), OAMWith(255, EdgeFlipped),
   OAMWith(240, NoSprites), OAMWith(239, NineInRow)}

\* control ($20 is 8x16 sprites) and mask ($10 shows sprites, $08 the
\* background alone)
SpriteConfigs ==
  {<<oam, control, 16>> : oam \in SpriteTables, control \in {0, 32}}
    \cup {<<OAMWith(255, NineInRow), 0, 8>>}

\* pattern memory as PPU writes below $2000 leave it: in both pattern
\* tables tile 0 has colour 2 in its right half and tile 1 colour 1 in its
\* left half
SpritePatterns ==
  [a \in {t + 8 + row : t \in {0, 4096}, row \in 0..7}
           \cup {t + 16 + row : t \in {0, 4096}, row \in 0..7} |->
     IF a % 4096 < 16 THEN 15 ELSE 240]

\* the sprite palettes as PPU writes at $3F11.. leave them: distinct entries
SpritePalettes ==
  [a \in {16144 + 4 * g + index : g \in 0..3, index \in 1..2} |-> a - 16144 + 32]

\* the console after the program filled pattern tables, palette and OAM and
\* wrote the control and mask registers during the first VBlank
SpriteConsole(config) ==
  Bind(NewConsole(NewCartridge(2, 0, 2)), LAMBDA w0 :
  Bind(write(w0, 8192, config[2]).w, LAMBDA w1 :
  Bind(write(w1, 8193, config[3]).w, LAMBDA w2 :
    [w2 EXCEPT !.ppu.sprRAM = config[1],
               !.ppu.ram = SpritePalettes,
               !.cart.CHR = SpritePatterns])))

InitSprites ==
  \E config \in SpriteConfigs :
     \E w \in {SpriteConsole(config)} :
        /\ cpu = w.cpu
        /\ ppu = w.ppu
        /\ m1 = w.m1
        /\ m4 = w.m4
        /\ nrom = w.nrom
        /\ unrom = w.unrom
        /\ cart = w.cart
        /\ joy = w.joy
        /\ exit = w.exit
        /\ obs = [op |-> "new", fg |-> EmptyMem, max |-> FALSE, ninth |-> FALSE,
                  ninthShown |-> FALSE]

\* the entries whose Y range [Y + 1, Y + 1 + height) contains Scanline+1,
\* among those with Y + 1 below cut
InYRange(p, cut) ==
  LET spriteHeight == IF p.flagLargeSprites THEN 16 ELSE 8
  IN {i \in 0..63 :
        LET y == Rd(p.sprRAM, 4 * i) + 1
        IN y < cut /\ p.Scanline + 1 >= y /\ p.Scanline + 1 < y + spriteHeight}

\* one call of PPU.Step.  When it loaded sprites obs.fg is the line buffer
\* and obs.max the overflow flag of the load; obs.ninth tells whether a load
\* that evaluated OAM has found nine entries in Y range since the flags
\* were last cleared, obs.ninthShown the same among entries with Y < 239
SpriteTick ==
  /\ ppu.Frame < MaxSpriteFrames
  /\ \E r \in {PPUStep(World)} :
       LET p == r.w.ppu
           loaded == (p.flagShowBackground \/ p.flagShowSprites) /\ p.Tick = 257
           evaluated == loaded /\ p.flagShowSprites /\ p.Scanline # 0
           cleared == p.Scanline = 261 /\ p.Tick = 1
       IN /\ Becomes(r.w)
          /\ \E line \in {IF loaded
                          THEN loadSpritesLine([r.w EXCEPT !.ppu.flagScanlineSpritesMax =
                                                  ppu.flagScanlineSpritesMax])
                          ELSE [fg |-> obs.fg, max |-> obs.max]} :
               obs' = [op |-> IF loaded THEN "loadSprites" ELSE "PPUStep",
                       fg |-> line.fg,
                       max |-> IF cleared THEN FALSE ELSE line.max,
                       ninth |-> IF cleared THEN FALSE
                                 ELSE obs.ninth \/ (evaluated /\ Cardinality(InYRange(p, 512)) > 8),
                       ninthShown |-> IF cleared THEN FALSE
                                      ELSE obs.ninthShown
                                             \/ (evaluated /\ Cardinality(InYRange(p, 240)) > 8)]

NextSprites == SpriteTick

SpecSprites == InitSprites /\ [][NextSprites]_vars

\* the first eight of a set of entries, in index order
FirstEight(S) == {i \in S : Cardinality({j \in S : j < i}) < 8}

\* entry i has an opaque pixel at slot pos of the line after Scanline
OpaqueAt(i, pos) ==
  LET spriteHeight == IF ppu.flagLargeSprites THEN 16 ELSE 8
      x == Rd(ppu.sprRAM, 4 * i + 3)
      attributes == Rd(ppu.sprRAM, 4 * i + 2)
      row == ppu.Scanline + 1 - (Rd(ppu.sprRAM, 4 * i) + 1)
      yOffset == IF Bit(attributes, 7) = 1 THEN spriteHeight - 1 - row ELSE row
      k == IF Bit(attributes, 6) = 1 THEN 7 - (pos - x) ELSE pos - x
  IN /\ pos >= x /\ pos <= x + 7
     /\ pixelStrip(World, Rd(ppu.sprRAM, 4 * i + 1), attributes % 4, TRUE, yOffset).result[k] # -1

\* the four parts of the sprite evaluation rule, with the entries in Y range
\* taken among those whose Y + 1 is below cut and ninth the record of a ninth
\* such entry
SpriteRule(cut, ninth) ==
  /\ ppu.flagScanlineSpritesMax <=> ninth
  /\ obs.op = "loadSprites" =>
       /\ \A pos \in DOMAIN obs.fg :
            /\ obs.fg[pos].from \in FirstEight(InYRange(ppu, cut))
            /\ \A i \in FirstEight(InYRange(ppu, cut)) :
                 OpaqueAt(i, pos) => obs.fg[pos].from <= i
       /\ ppu.Scanline = 0 => obs.fg = EmptyMem

\* C40 as stated, for any contents of OAM: the sprite load at tick 257
\* lets at most the first 8 entries whose Y range contains Scanline+1 paint
\* the line buffer; the overflow flag is set exactly when a ninth entry in
\* Y range was found on an evaluated line since the flags were cleared at
\* scanline 261 tick 1; of two entries opaque at the same x the one of
\* lower index is kept; the load on scanline 0 paints nothing.
C40_SpriteEvaluation == SpriteRule(512, obs.ninth)

\* C40: the same four parts with the entries in Y range taken among those
\* whose Y byte is below 239; an entry with Y of 239 or more is never in
\* range, neither for the line buffer nor for the overflow flag.
C40_SpriteEvaluationBelow239 == SpriteRule(240, obs.ninthShown)

\* nine overlapping sprites on line 51: the overflow flag is set, the buffer
\* holds pixels of eight of them and a slot that two of them cover
C40_Witness ==
  /\ obs.op = "loadSprites" /\ ppu.Scanline = 50
  /\ Cardinality(InYRange(ppu, 240)) = 9
  /\ ppu.flagScanlineSpritesMax /\ obs.ninthShown
  /\ {obs.fg[pos].from : pos \in DOMAIN obs.fg} = FirstEight(InYRange(ppu, 240))
  /\ \E pos \in DOMAIN obs.fg :
       /\ obs.fg[pos].from = 2
       /\ OpaqueAt(2, pos) /\ OpaqueAt(7, pos)

\* every OAM entry has Y = 240 and eight-pixel sprites: the load on
\* scanline 240 finds 64 entries whose Y range [241, 249) contains 241 and
\* the overflow flag stays clear
C40_HiddenEntriesInRange ==
  /\ obs.op = "loadSprites" /\ ppu.Scanline = 240 /\ ~ppu.flagLargeSprites
  /\ \A i \in 0..63 : Rd(ppu.sprRAM, 4 * i) = 240
  /\ Cardinality(InYRange(ppu, 512)) = 64
  /\ ~ppu.flagScanlineSpritesMax

====
